---- MODULE Spec2Model ----
(***************************************************************************)
(* Selection and circuit-breaking engine of claude-code-lb:                *)
(*   internal/selector/load_balancer.go  (LoadBalancer, "LB_" operators)   *)
(*   internal/selector/fallback.go       (FallbackSelector, "FS_")         *)
(* Time is counted in seconds.  time.Time{} (the zero time) is ZeroTime,   *)
(* which lies before every instant the clock shows.                        *)
(***************************************************************************)
EXTENDS Integers, Sequences, FiniteSets, TLC

VARIABLES
    config,             \* types.Config: Mode, Algorithm, Servers, Cooldown
    selector,           \* "none" before construction, then the type CreateSelector built
    now,                \* the wall clock, time.Now()
    serverStatus,       \* selector.serverStatus    : url -> bool
    serverDownUntil,    \* selector.serverDownUntil : url -> time
    failureCount,       \* selector.failureCount    : url -> int64
    currentServerIndex, \* LoadBalancer.currentServerIndex
    serverWeights,      \* LoadBalancer.serverWeights : url -> int
    orderedServers,     \* FallbackSelector.orderedServers
    op,                 \* the last call made on the selector and what it returned
    backoffUntil,       \* url -> the cooldownUntil its last MarkServerDown recorded,
                        \* zero once MarkServerHealthy or RecoverServer was called
                        \* for it from outside the sweeper
    lastTick,           \* the time of the last tick of the PassiveHealthCheck ticker,
                        \* the time the ticker was made before the first
    goroutines          \* the goroutines running a call on the selector: for each,
                        \* the call, the lock operations it has yet to make, the
                        \* locks it holds and what it has read so far

vars == << config, selector, now, serverStatus, serverDownUntil, failureCount,
           currentServerIndex, serverWeights, orderedServers, op,
           backoffUntil, lastTick, goroutines >>

-----------------------------------------------------------------------------
(* Bounds of the model *)

\* seconds between two instants the model observes
TimeStep == 300
\* the clock is observed at StartTime, StartTime + TimeStep, ... MaxTicks times
MaxTicks == 3
\* MarkServerDown is not called on a url whose failureCount has reached this
MaxFailures == 3
\* round-robin selections stop when the cursor has reached this
MaxIndex == 3
\* a drawn configuration has weights 1..MaxWeight and priorities
\* 0..MaxPriority, 0 for a server without an explicit priority
MaxWeight == 3
MaxPriority == 2
\* longest drawn server list
MaxServers == 3
\* most reads of an upstream body by the copy loop
MaxReads == 3
\* longest event-stream body, in lines
MaxLines == 2
\* goroutines calling the selector at the same time
MaxGoroutines == 2

(* Program constants *)

\* 10 * time.Minute, in seconds
MaxCooldown == 600
\* time.Time{}
ZeroTime == 0

StartTime == TimeStep
MaxTime == StartTime + MaxTicks * TimeStep

-----------------------------------------------------------------------------
(* types.UpstreamServer; DownUntil is the field of the shared static struct *)
Server(url, weight, priority) ==
    [URL |-> url, Weight |-> weight, Priority |-> priority, DownUntil |-> ZeroTime,
     BalanceThreshold |-> 0]

URLsOf(servers) == { servers[i].URL : i \in 1..Len(servers) }

URLs == URLsOf(config.Servers)

Range(seq) == { seq[i] : i \in 1..Len(seq) }

Min(a, b) == IF a < b THEN a ELSE b

\* op: the call, its url argument, the time.Now() it read, the url of the
\* server it returned ("nil" for none), its error ("" for nil), the list
\* of servers (as urls) it returned or worked on and, for a call that takes a
\* url, the entries of that url in the three maps when the call began
NoPre == [serverStatus |-> TRUE, serverDownUntil |-> ZeroTime, failureCount |-> 0]

NoOp == [name |-> "none", url |-> "", now |-> ZeroTime, ret |-> "nil",
         err |-> "", snap |-> << >>, pre |-> NoPre]

Call(name, url, t, ret, err, snap) ==
    [name |-> name, url |-> url, now |-> t, ret |-> ret, err |-> err,
     snap |-> snap, pre |-> NoPre]

CallOn(name, url, t) ==
    [name |-> name, url |-> url, now |-> t, ret |-> "nil", err |-> "",
     snap |-> << >>,
     pre |-> [serverStatus    |-> serverStatus[url],
              serverDownUntil |-> serverDownUntil[url],
              failureCount    |-> failureCount[url]]]

\* the three selector-owned maps as one value
Health == [serverStatus    |-> serverStatus,
           serverDownUntil |-> serverDownUntil,
           failureCount    |-> failureCount]

SetHealth(st) ==
    /\ serverStatus' = st.serverStatus
    /\ serverDownUntil' = st.serverDownUntil
    /\ failureCount' = st.failureCount

-----------------------------------------------------------------------------
(* LoadBalancer: circuit breaker *)

\* weight <= 0 is treated as 1
LB_weight(server) == IF server.Weight <= 0 THEN 1 ELSE server.Weight

\* NewLoadBalancer: the maps after construction
LB_NewHealth(servers) ==
    [serverStatus    |-> [u \in URLsOf(servers) |-> TRUE],
     serverDownUntil |-> [u \in URLsOf(servers) |-> ZeroTime],
     failureCount    |-> [u \in URLsOf(servers) |-> 0]]

LB_NewWeights(servers) ==
    [u \in URLsOf(servers) |->
        LB_weight(CHOOSE s \in Range(servers) : s.URL = u)]

\* the cooldown MarkServerDown applies at the given failure count
LB_cooldownDuration(cooldown, failures) ==
    IF failures > 1
    THEN IF cooldown * failures > MaxCooldown THEN MaxCooldown
         ELSE cooldown * failures
    ELSE cooldown

\* a variant of MarkServerDown that relies on the cooldown alone
LB_MarkServerDownSt_CooldownOnly(st, url, t, cooldown) ==
    LET failures == st.failureCount[url] + 1 IN
    [serverStatus    |-> st.serverStatus,
     failureCount    |-> [st.failureCount EXCEPT ![url] = failures],
     serverDownUntil |-> [st.serverDownUntil EXCEPT
                             ![url] = t + LB_cooldownDuration(cooldown, failures)]]

LB_MarkServerDownSt(st, url, t, cooldown) ==
    LET failures == st.failureCount[url] + 1 IN
    [serverStatus    |-> [st.serverStatus EXCEPT ![url] = FALSE],
     failureCount    |-> [st.failureCount EXCEPT ![url] = failures],
     serverDownUntil |-> [st.serverDownUntil EXCEPT
                             ![url] = t + LB_cooldownDuration(cooldown, failures)]]

\* a variant of RecoverServer that also forgets the failures
LB_RecoverServerSt_ResetFailures(st, url) ==
    [serverStatus    |-> [st.serverStatus EXCEPT ![url] = TRUE],
     failureCount    |-> [st.failureCount EXCEPT ![url] = 0],
     serverDownUntil |-> [st.serverDownUntil EXCEPT ![url] = ZeroTime]]

\* a variant of RecoverServer that leaves the cooldown in place
LB_RecoverServerSt_KeepCooldown(st, url) ==
    [serverStatus    |-> [st.serverStatus EXCEPT ![url] = TRUE],
     failureCount    |-> st.failureCount,
     serverDownUntil |-> st.serverDownUntil]

LB_RecoverServerSt(st, url) ==
    [serverStatus    |-> [st.serverStatus EXCEPT ![url] = TRUE],
     failureCount    |-> st.failureCount,
     serverDownUntil |-> [st.serverDownUntil EXCEPT ![url] = ZeroTime]]

\* a variant of MarkServerHealthy that takes one failure off the count
LB_MarkServerHealthySt_Decay(st, url) ==
    [serverStatus    |-> [st.serverStatus EXCEPT ![url] = TRUE],
     failureCount    |-> [st.failureCount EXCEPT
                             ![url] = IF @ > 0 THEN @ - 1 ELSE 0],
     serverDownUntil |-> [st.serverDownUntil EXCEPT ![url] = ZeroTime]]

\* a variant of MarkServerHealthy that restores the flag and leaves the
\* cooldown in place
LB_MarkServerHealthySt_KeepCooldown(st, url) ==
    [serverStatus    |-> [st.serverStatus EXCEPT ![url] = TRUE],
     failureCount    |-> [st.failureCount EXCEPT ![url] = 0],
     serverDownUntil |-> st.serverDownUntil]

LB_MarkServerHealthySt(st, url) ==
    LET fc == IF st.failureCount[url] > 0
              THEN [st.failureCount EXCEPT ![url] = 0]
              ELSE st.failureCount
    IN  IF ~st.serverStatus[url]
        THEN [serverStatus    |-> [st.serverStatus EXCEPT ![url] = TRUE],
              failureCount    |-> fc,
              serverDownUntil |-> [st.serverDownUntil EXCEPT ![url] = ZeroTime]]
        ELSE [serverStatus    |-> st.serverStatus,
              failureCount    |-> fc,
              serverDownUntil |-> st.serverDownUntil]

\* a variant of isServerAvailable that looks at the cooldown alone
LB_isServerAvailable_CooldownOnly(url, t) ==
    t > serverDownUntil[url]

LB_isServerAvailable(url, t) ==
    serverStatus[url] /\ t > serverDownUntil[url]

\* the servers of config.Servers, in that order, that are available at t
LB_GetAvailableServersAt(t) ==
    SelectSeq(config.Servers, LAMBDA s : LB_isServerAvailable(s.URL, t))

-----------------------------------------------------------------------------
(* LoadBalancer: selection algorithms.  Each returns the chosen position in  *)
(* servers (0 stands for nil) with the cursor and accumulators it leaves.    *)

Pick(sel, index, weights) == [sel |-> sel, index |-> index, weights |-> weights]

\* a variant of getRoundRobinServer that does not advance the cursor
LB_getRoundRobinServer_NoAdvance(servers, index, weights) ==
    Pick((index % Len(servers)) + 1, index, weights)

LB_getRoundRobinServer(servers, index, weights) ==
    IF Len(servers) = 0 THEN Pick(0, index, weights)
    ELSE Pick(((index + 1) % Len(servers)) + 1, index + 1, weights)

RECURSIVE LB_totalWeight(_)
LB_totalWeight(servers) ==
    IF servers = << >> THEN 0
    ELSE LB_weight(Head(servers)) + LB_totalWeight(Tail(servers))

\* the loop of getWeightedServer from position i on
RECURSIVE LB_weightedLoop(_, _, _, _, _)
LB_weightedLoop(servers, i, weights, maxCurrentWeight, selected) ==
    IF i > Len(servers) THEN [weights |-> weights, selected |-> selected]
    ELSE LET url == servers[i].URL
             currentWeight == weights[url] + LB_weight(servers[i])
             w == [weights EXCEPT ![url] = currentWeight]
         IN  IF currentWeight > maxCurrentWeight
             THEN LB_weightedLoop(servers, i + 1, w, currentWeight, i)
             ELSE LB_weightedLoop(servers, i + 1, w, maxCurrentWeight, selected)

\* a variant of getWeightedServer that leaves the accumulator of the selected
\* server as it is
LB_getWeightedServer_NoPenalty(servers, index, weights) ==
    IF Len(servers) = 0 THEN Pick(0, index, weights)
    ELSE IF Len(servers) = 1 THEN Pick(1, index, weights)
    ELSE LET r == LB_weightedLoop(servers, 1, weights, -1, 0) IN
         Pick(r.selected, index, r.weights)

LB_getWeightedServer(servers, index, weights) ==
    IF Len(servers) = 0 THEN Pick(0, index, weights)
    ELSE IF Len(servers) = 1 THEN Pick(1, index, weights)
    ELSE LET r == LB_weightedLoop(servers, 1, weights, -1, 0) IN
         IF r.selected # 0
         THEN Pick(r.selected, index,
                   [r.weights EXCEPT ![servers[r.selected].URL] =
                        @ - LB_totalWeight(servers)])
         ELSE Pick(0, index, r.weights)

\* n is the number rand.Int drew, or -1 when it returned an error
LB_getRandomServer(servers, index, weights, n) ==
    IF Len(servers) = 0 THEN Pick(0, index, weights)
    ELSE IF n < 0 THEN LB_getRoundRobinServer(servers, index, weights)
    ELSE Pick(n + 1, index, weights)

LB_pick(algorithm, servers, index, weights, n) ==
    CASE algorithm = "weighted_round_robin" ->
             LB_getWeightedServer(servers, index, weights)
      [] algorithm = "random" ->
             LB_getRandomServer(servers, index, weights, n)
      [] OTHER -> LB_getRoundRobinServer(servers, index, weights)

\* what rand.Int can return for a list of the given length
RandomDraws(algorithm, len) ==
    IF algorithm = "random" THEN (0..(len - 1)) \cup {-1} ELSE {0}

\* instants time.Now() may have shown to a call that then waited for the lock
StaleNows == { t \in {now, now - TimeStep} : t >= StartTime }

URLSeq(servers) == [i \in 1..Len(servers) |-> servers[i].URL]

-----------------------------------------------------------------------------
(* FallbackSelector: construction.  sort.Slice on a list of at most six      *)
(* elements is a plain insertion sort; it is modelled as such.               *)

\* the less functions handed to sort.Slice, on positions i and j of slice s
FS_lessConflict(servers, indices, i, j) ==
    servers[indices[i]].Weight > servers[indices[j]].Weight

\* a variant of the less function of assignAutoPriorities that keeps the
\* configuration order
FS_lessAuto_ByPosition(s, i, j) ==
    i < j

FS_lessAuto(s, i, j) ==
    IF s[i].Weight = s[j].Weight THEN i < j
    ELSE s[i].Weight > s[j].Weight

FS_lessFinal(s, i, j) ==
    IF s[i].Priority = s[j].Priority THEN s[i].Weight > s[j].Weight
    ELSE s[i].Priority < s[j].Priority

Less(kind, ctx, s, i, j) ==
    CASE kind = "conflict" -> FS_lessConflict(ctx, s, i, j)
      [] kind = "auto"     -> FS_lessAuto(s, i, j)
      [] OTHER             -> FS_lessFinal(s, i, j)

Swap(s, i, j) == [s EXCEPT ![i] = s[j], ![j] = s[i]]

RECURSIVE SortInsert(_, _, _, _)
SortInsert(kind, ctx, s, j) ==
    IF j > 1 /\ Less(kind, ctx, s, j, j - 1)
    THEN SortInsert(kind, ctx, Swap(s, j, j - 1), j - 1)
    ELSE s

RECURSIVE SortFrom(_, _, _, _)
SortFrom(kind, ctx, s, i) ==
    IF i > Len(s) THEN s
    ELSE SortFrom(kind, ctx, SortInsert(kind, ctx, s, i), i + 1)

SortSlice(kind, ctx, s) == SortFrom(kind, ctx, s, 2)

\* priorityGroups[p]: the positions of the servers configured with priority p
FS_priorityGroup(servers, p) ==
    SelectSeq([i \in 1..Len(servers) |-> i], LAMBDA i : servers[i].Priority = p)

\* the inner loop of resolveExplicitPriorityConflicts, from position k of indices
RECURSIVE FS_reassign(_, _, _, _)
FS_reassign(servers, indices, priority, k) ==
    IF k > Len(indices) THEN servers
    ELSE FS_reassign([servers EXCEPT ![indices[k]].Priority = priority + (k - 1)],
                     indices, priority, k + 1)

\* the outer loop; order is the order in which the map is ranged over, and
\* groups the map built before the loop
RECURSIVE FS_resolveLoop(_, _, _)
FS_resolveLoop(servers, groups, order) ==
    IF order = << >> THEN servers
    ELSE LET priority == Head(order)
             indices == groups[priority]
         IN  IF Len(indices) > 1
             THEN FS_resolveLoop(
                      FS_reassign(servers,
                                  SortSlice("conflict", servers, indices),
                                  priority, 1),
                      groups, Tail(order))
             ELSE FS_resolveLoop(servers, groups, Tail(order))

FS_resolveExplicitPriorityConflicts(servers, order) ==
    LET groups == [p \in Range(order) |-> FS_priorityGroup(servers, p)]
    IN  FS_resolveLoop(servers, groups, order)

RECURSIVE FS_maxUsedPriority(_, _)
FS_maxUsedPriority(servers, maxUsedPriority) ==
    IF servers = << >> THEN maxUsedPriority
    ELSE FS_maxUsedPriority(Tail(servers),
             IF Head(servers).Priority > maxUsedPriority
             THEN Head(servers).Priority ELSE maxUsedPriority)

FS_assignAutoPriorities(autoPriorityServers, explicitPriorityServers) ==
    IF Len(autoPriorityServers) = 0 THEN autoPriorityServers
    ELSE LET maxUsedPriority == FS_maxUsedPriority(explicitPriorityServers, 0)
             sorted == SortSlice("auto", << >>, autoPriorityServers)
         IN  [i \in 1..Len(sorted) |->
                 [sorted[i] EXCEPT !.Priority = maxUsedPriority + i]]

\* a variant of assignUniquePriorities that copies only the explicit group
\* back
FS_assignUniquePriorities_NoAutoCopy(servers, order) ==
    LET explicit == FS_resolveExplicitPriorityConflicts(
                        SelectSeq(servers, LAMBDA s : s.Priority > 0), order)
    IN  explicit \o SubSeq(servers, Len(explicit) + 1, Len(servers))

FS_assignUniquePriorities(servers, order) ==
    LET explicit == FS_resolveExplicitPriorityConflicts(
                        SelectSeq(servers, LAMBDA s : s.Priority > 0), order)
        auto == FS_assignAutoPriorities(
                        SelectSeq(servers, LAMBDA s : ~(s.Priority > 0)), explicit)
    IN  explicit \o auto

\* NewFallbackSelector: orderedServers
FS_NewOrderedServers(servers, order) ==
    SortSlice("final", << >>, FS_assignUniquePriorities(servers, order))

\* the explicit priorities of a configuration, and the orders a range over
\* the map keyed by them can take
ExplicitPriorities(servers) ==
    { servers[i].Priority : i \in { j \in 1..Len(servers) : servers[j].Priority > 0 } }

MapOrders(keys) ==
    { o \in [1..Cardinality(keys) -> keys] :
        \A i, j \in 1..Cardinality(keys) : i # j => o[i] # o[j] }

RECURSIVE AscendingOrder(_)
AscendingOrder(keys) ==
    IF keys = {} THEN << >>
    ELSE LET m == CHOOSE k \in keys : \A l \in keys : k <= l
         IN  << m >> \o AscendingOrder(keys \ {m})

-----------------------------------------------------------------------------
(* FallbackSelector: circuit breaker and selection *)

FS_NewHealth(servers) ==
    [serverStatus    |-> [u \in URLsOf(servers) |-> TRUE],
     serverDownUntil |-> [u \in URLsOf(servers) |-> ZeroTime],
     failureCount    |-> [u \in URLsOf(servers) |-> 0]]

FS_cooldownDuration(cooldown, failures) ==
    IF failures > 1
    THEN IF cooldown * failures > MaxCooldown THEN MaxCooldown
         ELSE cooldown * failures
    ELSE cooldown

FS_MarkServerDownSt(st, url, t, cooldown) ==
    LET failures == st.failureCount[url] + 1 IN
    [serverStatus    |-> [st.serverStatus EXCEPT ![url] = FALSE],
     failureCount    |-> [st.failureCount EXCEPT ![url] = failures],
     serverDownUntil |-> [st.serverDownUntil EXCEPT
                             ![url] = t + FS_cooldownDuration(cooldown, failures)]]

\* a variant of RecoverServer that leaves the cooldown end in place
FS_RecoverServerSt_KeepCooldown(st, url) ==
    [serverStatus    |-> [st.serverStatus EXCEPT ![url] = TRUE],
     failureCount    |-> st.failureCount,
     serverDownUntil |-> st.serverDownUntil]

FS_RecoverServerSt(st, url) ==
    [serverStatus    |-> [st.serverStatus EXCEPT ![url] = TRUE],
     failureCount    |-> st.failureCount,
     serverDownUntil |-> [st.serverDownUntil EXCEPT ![url] = ZeroTime]]

FS_MarkServerHealthySt(st, url) ==
    LET fc == IF st.failureCount[url] > 0
              THEN [st.failureCount EXCEPT ![url] = 0]
              ELSE st.failureCount
    IN  IF ~st.serverStatus[url]
        THEN [serverStatus    |-> [st.serverStatus EXCEPT ![url] = TRUE],
              failureCount    |-> fc,
              serverDownUntil |-> [st.serverDownUntil EXCEPT ![url] = ZeroTime]]
        ELSE [serverStatus    |-> st.serverStatus,
              failureCount    |-> fc,
              serverDownUntil |-> st.serverDownUntil]

FS_isServerAvailable(url, t) ==
    serverStatus[url] /\ t > serverDownUntil[url]

FS_GetAvailableServersAt(t) ==
    SelectSeq(orderedServers, LAMBDA s : FS_isServerAvailable(s.URL, t))

\* time.Hour * 24, in seconds
InitialShortestCooldown == 86400

\* the loop of getEmergencyFallbackServer from position i on; the result is a
\* position in orderedServers, 0 for nil
RECURSIVE FS_emergencyLoop(_, _, _, _)
FS_emergencyLoop(t, i, bestServer, shortestCooldown) ==
    IF i > Len(orderedServers) THEN bestServer
    ELSE IF t > orderedServers[i].DownUntil THEN i
    ELSE LET cooldownRemaining == orderedServers[i].DownUntil - t IN
         IF cooldownRemaining < shortestCooldown
         THEN FS_emergencyLoop(t, i + 1, i, cooldownRemaining)
         ELSE FS_emergencyLoop(t, i + 1, bestServer, shortestCooldown)

\* a variant of getEmergencyFallbackServer that finds no server
FS_getEmergencyFallbackServer_None(t) ==
    0

FS_getEmergencyFallbackServer(t) ==
    FS_emergencyLoop(t, 1, 0, InitialShortestCooldown)

\* a variant of the first loop of SelectServer that looks at the static
\* DownUntil alone
FS_firstAvailable_IgnoreStatus(t, i) ==
    IF i > Len(orderedServers) THEN 0
    ELSE IF t > orderedServers[i].DownUntil THEN i
    ELSE 0

\* the first loop of SelectServer from position i on; 0 when it finds none
RECURSIVE FS_firstAvailable(_, _)
FS_firstAvailable(t, i) ==
    IF i > Len(orderedServers) THEN 0
    ELSE IF serverStatus[orderedServers[i].URL] /\ t > orderedServers[i].DownUntil
    THEN i
    ELSE FS_firstAvailable(t, i + 1)

\* SelectServer read the clock at t, getEmergencyFallbackServer at t2
FS_SelectServerAt(t, t2) ==
    LET i == FS_firstAvailable(t, 1) IN
    IF i # 0 THEN [ret |-> orderedServers[i].URL, err |-> ""]
    ELSE LET j == FS_getEmergencyFallbackServer(t2) IN
         IF j # 0 THEN [ret |-> orderedServers[j].URL, err |-> ""]
         ELSE [ret |-> "nil", err |-> "no available servers"]

-----------------------------------------------------------------------------
(* Construction *)

\* a variant of CreateSelector in which the legacy flag decides first
CreateSelector_LegacyFirst(cfg) ==
    IF cfg.Fallback THEN "FallbackSelector"
    ELSE IF cfg.Mode = "fallback" THEN "FallbackSelector" ELSE "LoadBalancer"

CreateSelector(cfg) ==
    CASE cfg.Mode = "load_balance" -> "LoadBalancer"
      [] cfg.Mode = "fallback"     -> "FallbackSelector"
      [] OTHER -> IF cfg.Fallback THEN "FallbackSelector" ELSE "LoadBalancer"

Config(mode, algorithm, servers, cooldown) ==
    [Mode |-> mode, Algorithm |-> algorithm, Servers |-> servers,
     Fallback |-> FALSE, Cooldown |-> cooldown]

\* NewFallbackSelector; order is the order in which the range over the
\* priority groups runs
NewFallbackSelector ==
    /\ selector = "none"
    /\ CreateSelector(config) = "FallbackSelector"
    /\ selector' = "FallbackSelector"
    /\ SetHealth(FS_NewHealth(config.Servers))
    /\ \E order \in MapOrders(ExplicitPriorities(config.Servers)) :
          orderedServers' = FS_NewOrderedServers(config.Servers, order)
    /\ op' = Call("NewFallbackSelector", "", now, "nil", "", << >>)
    /\ backoffUntil' = [u \in URLs |-> ZeroTime]
    /\ UNCHANGED lastTick
    /\ UNCHANGED << goroutines, config, now, currentServerIndex, serverWeights >>

\* NewLoadBalancer, called by CreateSelector
NewLoadBalancer ==
    /\ selector = "none"
    /\ CreateSelector(config) = "LoadBalancer"
    /\ selector' = "LoadBalancer"
    /\ SetHealth(LB_NewHealth(config.Servers))
    /\ serverWeights' = LB_NewWeights(config.Servers)
    /\ op' = Call("NewLoadBalancer", "", now, "nil", "", << >>)
    /\ backoffUntil' = [u \in URLs |-> ZeroTime]
    /\ UNCHANGED << goroutines, config, now, currentServerIndex, orderedServers, lastTick >>

-----------------------------------------------------------------------------
(* Operations of the LoadBalancer *)

LB_Running == selector = "LoadBalancer"

LB_MarkServerDown(url) ==
    /\ LB_Running
    /\ failureCount[url] < MaxFailures
    /\ SetHealth(LB_MarkServerDownSt(Health, url, now, config.Cooldown))
    /\ op' = CallOn("MarkServerDown", url, now)
    /\ backoffUntil' = [backoffUntil EXCEPT ![url] = serverDownUntil'[url]]
    /\ UNCHANGED lastTick
    /\ UNCHANGED << goroutines, config, selector, now, currentServerIndex, serverWeights,
                    orderedServers >>

LB_RecoverServer(url) ==
    /\ LB_Running
    /\ SetHealth(LB_RecoverServerSt(Health, url))
    /\ op' = CallOn("RecoverServer", url, now)
    /\ backoffUntil' = [backoffUntil EXCEPT ![url] = ZeroTime]
    /\ UNCHANGED lastTick
    /\ UNCHANGED << goroutines, config, selector, now, currentServerIndex, serverWeights,
                    orderedServers >>

LB_MarkServerHealthy(url) ==
    /\ LB_Running
    /\ SetHealth(LB_MarkServerHealthySt(Health, url))
    /\ op' = CallOn("MarkServerHealthy", url, now)
    /\ backoffUntil' = [backoffUntil EXCEPT ![url] = ZeroTime]
    /\ UNCHANGED lastTick
    /\ UNCHANGED << goroutines, config, selector, now, currentServerIndex, serverWeights,
                    orderedServers >>

LB_GetAvailableServers ==
    /\ LB_Running
    /\ \E t \in StaleNows :
          op' = Call("GetAvailableServers", "", t, "nil", "",
                     URLSeq(LB_GetAvailableServersAt(t)))
    /\ UNCHANGED << backoffUntil, lastTick >>
    /\ UNCHANGED << goroutines, config, selector, now, serverStatus, serverDownUntil,
                    failureCount, currentServerIndex, serverWeights,
                    orderedServers >>

\* SelectServer, run without another call in between
LB_SelectServer ==
    /\ LB_Running
    /\ \E t \in StaleNows :
          LET availableServers == LB_GetAvailableServersAt(t) IN
          IF Len(availableServers) = 0
          THEN /\ op' = Call("SelectServer", "", t, "nil",
                             "no available servers", << >>)
               /\ UNCHANGED << currentServerIndex, serverWeights >>
          ELSE \E n \in RandomDraws(config.Algorithm, Len(availableServers)) :
                  LET r == LB_pick(config.Algorithm, availableServers,
                                   currentServerIndex, serverWeights, n)
                  IN  /\ r.index <= MaxIndex
                      /\ currentServerIndex' = r.index
                      /\ serverWeights' = r.weights
                      /\ op' = Call("SelectServer", "", t,
                                    IF r.sel = 0 THEN "nil"
                                    ELSE availableServers[r.sel].URL,
                                    IF r.sel = 0 THEN "failed to select server"
                                    ELSE "",
                                    URLSeq(availableServers))
    /\ UNCHANGED << backoffUntil, lastTick >>
    /\ UNCHANGED << goroutines, config, selector, now, serverStatus, serverDownUntil,
                    failureCount, orderedServers >>

-----------------------------------------------------------------------------
(* Operations of the FallbackSelector *)

FS_Running == selector = "FallbackSelector"

\* a variant of MarkServerDown that also records the cooldown in the DownUntil
\* field of the server's entries in config.Servers and orderedServers
FS_MarkServerDown_WriteStatic(url) ==
    /\ FS_Running
    /\ failureCount[url] < MaxFailures
    /\ SetHealth(FS_MarkServerDownSt(Health, url, now, config.Cooldown))
    /\ op' = CallOn("MarkServerDown", url, now)
    /\ backoffUntil' = [backoffUntil EXCEPT ![url] = serverDownUntil'[url]]
    /\ config' = [config EXCEPT !.Servers =
                     [i \in 1..Len(@) |->
                        IF @[i].URL = url
                        THEN [@[i] EXCEPT !.DownUntil = serverDownUntil'[url]]
                        ELSE @[i]]]
    /\ orderedServers' =
          [i \in 1..Len(orderedServers) |->
             IF orderedServers[i].URL = url
             THEN [orderedServers[i] EXCEPT !.DownUntil = serverDownUntil'[url]]
             ELSE orderedServers[i]]
    /\ UNCHANGED << goroutines, selector, now, currentServerIndex, serverWeights,
                    lastTick >>

FS_MarkServerDown(url) ==
    /\ FS_Running
    /\ failureCount[url] < MaxFailures
    /\ SetHealth(FS_MarkServerDownSt(Health, url, now, config.Cooldown))
    /\ op' = CallOn("MarkServerDown", url, now)
    /\ backoffUntil' = [backoffUntil EXCEPT ![url] = serverDownUntil'[url]]
    /\ UNCHANGED lastTick
    /\ UNCHANGED << goroutines, config, selector, now, currentServerIndex, serverWeights,
                    orderedServers >>

FS_RecoverServer(url) ==
    /\ FS_Running
    /\ SetHealth(FS_RecoverServerSt(Health, url))
    /\ op' = CallOn("RecoverServer", url, now)
    /\ backoffUntil' = [backoffUntil EXCEPT ![url] = ZeroTime]
    /\ UNCHANGED lastTick
    /\ UNCHANGED << goroutines, config, selector, now, currentServerIndex, serverWeights,
                    orderedServers >>

FS_MarkServerHealthy(url) ==
    /\ FS_Running
    /\ SetHealth(FS_MarkServerHealthySt(Health, url))
    /\ op' = CallOn("MarkServerHealthy", url, now)
    /\ backoffUntil' = [backoffUntil EXCEPT ![url] = ZeroTime]
    /\ UNCHANGED lastTick
    /\ UNCHANGED << goroutines, config, selector, now, currentServerIndex, serverWeights,
                    orderedServers >>

FS_GetAvailableServers ==
    /\ FS_Running
    /\ \E t \in StaleNows :
          op' = Call("GetAvailableServers", "", t, "nil", "",
                     URLSeq(FS_GetAvailableServersAt(t)))
    /\ UNCHANGED << backoffUntil, lastTick >>
    /\ UNCHANGED << goroutines, config, selector, now, serverStatus, serverDownUntil,
                    failureCount, currentServerIndex, serverWeights,
                    orderedServers >>

FS_SelectServer ==
    /\ FS_Running
    /\ \E t \in StaleNows :
          LET r == FS_SelectServerAt(t, now) IN
          op' = Call("SelectServer", "", t, r.ret, r.err, << >>)
    /\ UNCHANGED << backoffUntil, lastTick >>
    /\ UNCHANGED << goroutines, config, selector, now, serverStatus, serverDownUntil,
                    failureCount, currentServerIndex, serverWeights,
                    orderedServers >>

\* GetServerStatus, the same in both selectors: a copy of the status map
GetServerStatus ==
    /\ selector # "none"
    /\ op' = [name |-> "GetServerStatus", url |-> "", now |-> now,
              ret |-> "nil", err |-> "", snap |-> << >>, pre |-> NoPre,
              status |-> serverStatus]
    /\ UNCHANGED << goroutines, config, selector, now, serverStatus, serverDownUntil,
                    failureCount, currentServerIndex, serverWeights,
                    orderedServers, backoffUntil, lastTick >>

\* the clock moves on
Tick ==
    /\ selector # "none"
    /\ now + TimeStep <= MaxTime
    /\ now' = now + TimeStep
    /\ op' = NoOp
    /\ UNCHANGED << backoffUntil, lastTick >>
    /\ UNCHANGED << goroutines, config, selector, serverStatus, serverDownUntil,
                    failureCount, currentServerIndex, serverWeights,
                    orderedServers >>

-----------------------------------------------------------------------------
(* The passive sweeper, health.Checker.PassiveHealthCheck: a ticker of       *)
(* period config.Cooldown; each tick reads the clock and the status map and  *)
(* calls RecoverServer through the Balancer                                  *)

\* Balancer.RecoverServer: the selector's RecoverServer
RecoverServerSt(st, url) ==
    IF selector = "LoadBalancer" THEN LB_RecoverServerSt(st, url)
    ELSE FS_RecoverServerSt(st, url)

\* the test of the loop body, on an entry of the checker's config.Servers
\* and the status map GetServerStatus returned
\* a variant of the sweeper's test that picks the available servers
ShouldRecover_Available(server, status, t) ==
    status[server.URL] /\ t > server.DownUntil

ShouldRecover(server, status, t) ==
    ~status[server.URL] /\ t > server.DownUntil

\* the loop of a tick from position i of config.Servers on
RECURSIVE SweepFrom(_, _, _, _)
SweepFrom(st, status, t, i) ==
    IF i > Len(config.Servers) THEN st
    ELSE IF ShouldRecover(config.Servers[i], status, t)
    THEN SweepFrom(RecoverServerSt(st, config.Servers[i].URL), status, t, i + 1)
    ELSE SweepFrom(st, status, t, i + 1)

\* the ticker has a tick to deliver
TickDue == now >= lastTick + config.Cooldown

\* one tick; op.snap lists the urls RecoverServer was called for
PassiveHealthCheck ==
    /\ selector # "none"
    /\ TickDue
    /\ lastTick' = lastTick + config.Cooldown
    /\ SetHealth(SweepFrom(Health, serverStatus, now, 1))
    /\ op' = Call("PassiveHealthCheck", "", now, "nil", "",
                  URLSeq(SelectSeq(config.Servers,
                      LAMBDA s : ShouldRecover(s, serverStatus, now))))
    /\ UNCHANGED << goroutines, config, selector, now, currentServerIndex, serverWeights,
                    orderedServers, backoffUntil >>

-----------------------------------------------------------------------------
(* The forwarding pipeline, proxy.Handler and forwardRequest: one inbound    *)
(* request, from GetNextServer to the response written to the client         *)

\* what the outbound call meets: http.NewRequest fails and nothing is sent,
\* or client.Do fails, or a response arrives with a status, a content type
\* that is an event stream or not, and a body of chunks whose read either
\* reaches the end or fails after `got` of them
Statuses == {200, 302, 404, 429, 499, 500}
\* what the body and the Content-Type of a response are to parseUsageInfo:
\* JSON or SSE that carries a model and a usage, JSON that does not
\* unmarshal or SSE without a model, neither of the two content types.  A
\* streamed response is one whose Content-Type is text/event-stream, which
\* parseUsageInfo supports
UsageOutcomes == {"valid", "malformed", "unsupported"}

Bodies == { << "chunk1", "chunk2" >> }

RequestError ==
    [built |-> FALSE, failed |-> FALSE, status |-> 0, streaming |-> FALSE,
     body |-> << >>, readErr |-> FALSE, got |-> 0, usage |-> "unsupported"]

TransportFailure ==
    [built |-> TRUE, failed |-> TRUE, status |-> 0, streaming |-> FALSE,
     body |-> << >>, readErr |-> FALSE, got |-> 0, usage |-> "unsupported"]

Responses ==
    UNION { { r \in [built : {TRUE}, failed : {FALSE}, status : Statuses,
                     streaming : BOOLEAN, body : {b}, readErr : BOOLEAN,
                     got : 0..Len(b), usage : UsageOutcomes] :
                 /\ r.readErr <=> r.got < Len(b)
                 /\ r.streaming => r.usage # "unsupported" } : b \in Bodies }

Upstreams == {RequestError, TransportFailure} \cup Responses

\* a call on the Balancer
BalancerCall(name, url) == [name |-> name, url |-> url]

\* what the client is sent: a status, the error of a gin.H body written by
\* the handler itself ("" when the body is the upstream's), the body chunks
ClientResponse(status, error, body) ==
    [status |-> status, error |-> error, body |-> body]

NoResponse == ClientResponse(0, "", << >>)

\* parseUsageInfo on the body read from the upstream: the model and whether
\* the parse succeeded
parseUsageInfo(up) ==
    IF up.usage = "valid" THEN [model |-> "claude", success |-> TRUE]
    ELSE [model |-> "", success |-> FALSE]
\* the lines forwardRequest logs after MarkServerHealthy: the line on the
\* status, then for a streamed body that is not empty the line on its usage
responseLog(up) ==
    LET parsed == IF ~up.streaming THEN parseUsageInfo(up)
                  ELSE [model |-> "", success |-> TRUE]
        first  == IF up.status = 200
                  THEN IF parsed.success /\ parsed.model # ""
                       THEN "Success with usage" ELSE "Success"
                  ELSE IF up.status < 400 THEN "Response" ELSE "Client error"
        after  == parseUsageInfo(up)
    IN  IF up.streaming /\ up.got > 0 /\ after.success /\ after.model # ""
        THEN << first, "Streaming Success with usage" >>
        ELSE << first >>
\* a variant of forwardRequest that fails, and marks the server down, when
\* the body of a 200 does not parse as usage
forwardRequest_FailOnUnparsed(url, up) ==
    IF ~up.built
    THEN [success |-> FALSE, contacted |-> << >>, calls |-> << >>,
          client |-> NoResponse, logged |-> << >>]
    ELSE IF up.failed
    THEN [success |-> FALSE, contacted |-> << url >>,
          calls   |-> << BalancerCall("MarkServerDown", url) >>,
          client  |-> NoResponse, logged |-> << >>]
    ELSE IF ~up.streaming /\ up.readErr
    THEN [success |-> FALSE, contacted |-> << url >>, calls |-> << >>,
          client |-> NoResponse, logged |-> << >>]
    ELSE IF up.status >= 500 \/ up.status = 429
    THEN [success |-> FALSE, contacted |-> << url >>,
          calls   |-> << BalancerCall("MarkServerDown", url) >>,
          client  |-> NoResponse, logged |-> << >>]
    ELSE IF up.status = 200 /\ ~parseUsageInfo(up).success
    THEN [success |-> FALSE, contacted |-> << url >>,
          calls   |-> << BalancerCall("MarkServerDown", url) >>,
          client  |-> NoResponse, logged |-> << >>]
    ELSE [success |-> TRUE, contacted |-> << url >>,
          calls   |-> << BalancerCall("MarkServerHealthy", url) >>,
          client  |-> ClientResponse(up.status, "",
                                     SubSeq(up.body, 1, up.got)),
          logged  |-> responseLog(up)]
\* a variant of forwardRequest that makes no call on the Balancer for a
\* status from 400 to 499
forwardRequest_SkipClientError(url, up) ==
    IF ~up.built
    THEN [success |-> FALSE, contacted |-> << >>, calls |-> << >>,
          client |-> NoResponse, logged |-> << >>]
    ELSE IF up.failed
    THEN [success |-> FALSE, contacted |-> << url >>,
          calls   |-> << BalancerCall("MarkServerDown", url) >>,
          client  |-> NoResponse, logged |-> << >>]
    ELSE IF ~up.streaming /\ up.readErr
    THEN [success |-> FALSE, contacted |-> << url >>, calls |-> << >>,
          client |-> NoResponse, logged |-> << >>]
    ELSE IF up.status >= 500 \/ up.status = 429
    THEN [success |-> FALSE, contacted |-> << url >>,
          calls   |-> << BalancerCall("MarkServerDown", url) >>,
          client  |-> NoResponse, logged |-> << >>]
    ELSE [success |-> TRUE, contacted |-> << url >>,
          calls   |-> IF up.status >= 400 THEN << >>
                      ELSE << BalancerCall("MarkServerHealthy", url) >>,
          client  |-> ClientResponse(up.status, "",
                                     SubSeq(up.body, 1, up.got)),
          logged  |-> responseLog(up)]

\* a variant of forwardRequest that sends the request a second time when
\* client.Do fails
forwardRequest_RetryOnFailure(url, up) ==
    IF ~up.built
    THEN [success |-> FALSE, contacted |-> << >>, calls |-> << >>,
          client |-> NoResponse, logged |-> << >>]
    ELSE IF up.failed
    THEN [success |-> FALSE, contacted |-> << url, url >>,
          calls   |-> << BalancerCall("MarkServerDown", url),
                         BalancerCall("MarkServerDown", url) >>,
          client  |-> NoResponse, logged |-> << >>]
    ELSE IF ~up.streaming /\ up.readErr
    THEN [success |-> FALSE, contacted |-> << url >>, calls |-> << >>,
          client |-> NoResponse, logged |-> << >>]
    ELSE IF up.status >= 500 \/ up.status = 429
    THEN [success |-> FALSE, contacted |-> << url >>,
          calls   |-> << BalancerCall("MarkServerDown", url) >>,
          client  |-> NoResponse, logged |-> << >>]
    ELSE [success |-> TRUE, contacted |-> << url >>,
          calls   |-> << BalancerCall("MarkServerHealthy", url) >>,
          client  |-> ClientResponse(up.status, "",
                                     SubSeq(up.body, 1, up.got)),
          logged  |-> responseLog(up)]

\* forwardRequest: whether it succeeded, the servers it sent the request to,
\* the calls it made on the Balancer in order, and what it wrote to the
\* client
forwardRequest(url, up) ==
    IF ~up.built
    THEN [success |-> FALSE, contacted |-> << >>, calls |-> << >>,
          client |-> NoResponse, logged |-> << >>]
    ELSE IF up.failed
    THEN [success |-> FALSE, contacted |-> << url >>,
          calls   |-> << BalancerCall("MarkServerDown", url) >>,
          client  |-> NoResponse, logged |-> << >>]
    ELSE IF ~up.streaming /\ up.readErr
    THEN [success |-> FALSE, contacted |-> << url >>, calls |-> << >>,
          client |-> NoResponse, logged |-> << >>]
    ELSE IF up.status >= 500 \/ up.status = 429
    THEN [success |-> FALSE, contacted |-> << url >>,
          calls   |-> << BalancerCall("MarkServerDown", url) >>,
          client  |-> NoResponse, logged |-> << >>]
    ELSE [success |-> TRUE, contacted |-> << url >>,
          calls   |-> << BalancerCall("MarkServerHealthy", url) >>,
          client  |-> ClientResponse(up.status, "",
                                     SubSeq(up.body, 1, up.got)),
          logged  |-> responseLog(up)]

\* Balancer.MarkServerDown / MarkServerHealthy on the selector in use
ApplyCall(st, call, t) ==
    IF call.name = "MarkServerDown"
    THEN IF selector = "LoadBalancer"
         THEN LB_MarkServerDownSt(st, call.url, t, config.Cooldown)
         ELSE FS_MarkServerDownSt(st, call.url, t, config.Cooldown)
    ELSE IF selector = "LoadBalancer"
         THEN LB_MarkServerHealthySt(st, call.url)
         ELSE FS_MarkServerHealthySt(st, call.url)

RECURSIVE ApplyCalls(_, _, _)
ApplyCalls(st, calls, t) ==
    IF calls = << >> THEN st
    ELSE ApplyCalls(ApplyCall(st, Head(calls), t), Tail(calls), t)

\* Balancer.GetNextServer: the results SelectServer can give in this state,
\* each with the cursor and the smooth weights it leaves
LB_SelectResults ==
    UNION { LET availableServers == LB_GetAvailableServersAt(t) IN
            IF Len(availableServers) = 0
            THEN { [ret |-> "nil", err |-> "no available servers",
                    index |-> currentServerIndex, weights |-> serverWeights] }
            ELSE { LET r == LB_pick(config.Algorithm, availableServers,
                                    currentServerIndex, serverWeights, n)
                   IN  [ret     |-> IF r.sel = 0 THEN "nil"
                                    ELSE availableServers[r.sel].URL,
                        err     |-> IF r.sel = 0 THEN "failed to select server"
                                    ELSE "",
                        index   |-> r.index,
                        weights |-> r.weights] :
                   n \in RandomDraws(config.Algorithm, Len(availableServers)) }
          : t \in StaleNows }

FS_SelectResults ==
    { LET r == FS_SelectServerAt(t, now)
      IN  [ret |-> r.ret, err |-> r.err,
           index |-> currentServerIndex, weights |-> serverWeights] :
      t \in StaleNows }

GetNextServer ==
    IF selector = "LoadBalancer" THEN LB_SelectResults ELSE FS_SelectResults

\* the handler on a result of GetNextServer and an upstream: the results of
\* the GetNextServer calls it made, the servers the request was sent to, the
\* calls made on the Balancer after the selection, the response to the client
HandlerFunc_Reselect(sel, up) ==
    IF sel.err # ""
    THEN [selected |-> << "nil", "nil" >>, contacted |-> << >>, calls |-> << >>,
          client |-> ClientResponse(502, "No available servers", << >>),
          logged |-> << >>]
    ELSE LET r == forwardRequest(sel.ret, up)
         IN  [selected  |-> IF r.success THEN << sel.ret >>
                            ELSE << sel.ret, sel.ret >>,
              contacted |-> r.contacted,
              calls     |-> r.calls,
              client    |-> IF r.success THEN r.client
                            ELSE ClientResponse(502, "Request failed", << >>),
              logged    |-> r.logged]

HandlerFunc(sel, up) ==
    IF sel.err # ""
    THEN [selected |-> << "nil" >>, contacted |-> << >>, calls |-> << >>,
          client |-> ClientResponse(502, "No available servers", << >>),
          logged |-> << >>]
    ELSE LET r == forwardRequest(sel.ret, up)
         IN  [selected  |-> << sel.ret >>,
              contacted |-> r.contacted,
              calls     |-> r.calls,
              client    |-> IF r.success THEN r.client
                            ELSE ClientResponse(502, "Request failed", << >>),
              logged    |-> r.logged]

\* the record of one run of the handler: the server chosen, the error of the
\* selection, what the upstream did, and what the handler did
Handled(sel, t, up, run) ==
    [name |-> "Handler", url |-> sel.ret, now |-> t, ret |-> sel.ret,
     err |-> sel.err, snap |-> << >>,
     pre  |-> IF sel.err # "" THEN NoPre ELSE CallOn("", sel.ret, t).pre,
     upstream |-> up, selected |-> run.selected,
     contacted |-> run.contacted, calls |-> run.calls, client |-> run.client,
     logged |-> run.logged]

Handler ==
    /\ selector # "none"
    /\ \E sel \in GetNextServer :
          /\ sel.index <= MaxIndex
          /\ currentServerIndex' = sel.index
          /\ serverWeights' = sel.weights
          /\ \E up \in IF sel.err # "" THEN {RequestError} ELSE Upstreams :
                LET run == HandlerFunc(sel, up)
                    down == \E i \in 1..Len(run.calls) :
                               run.calls[i].name = "MarkServerDown"
                    st == ApplyCalls(Health, run.calls, now)
                IN  /\ down => failureCount[sel.ret] < MaxFailures
                    /\ SetHealth(st)
                    /\ backoffUntil' =
                          IF run.calls = << >> THEN backoffUntil
                          ELSE [backoffUntil EXCEPT ![sel.ret] =
                                   IF down THEN st.serverDownUntil[sel.ret]
                                   ELSE ZeroTime]
                    /\ op' = Handled(sel, now, up, run)
    /\ UNCHANGED << goroutines, config, selector, now, orderedServers, lastTick >>

-----------------------------------------------------------------------------
(* The health endpoint, health.Handler: the counts it reports.  It reads the *)
(* available servers and the status map through the Balancer, then the clock *)
(* and the DownUntil field of the entries of config.Servers                  *)

HealthHandler ==
    /\ selector # "none"
    /\ \E t \in StaleNows :
          LET availableServers ==
                  IF selector = "LoadBalancer" THEN LB_GetAvailableServersAt(t)
                  ELSE FS_GetAvailableServersAt(t)
              coolingDownServers ==
                  Cardinality({ i \in 1..Len(config.Servers) :
                                   /\ ~serverStatus[config.Servers[i].URL]
                                   /\ now < config.Servers[i].DownUntil })
          IN  op' = [name |-> "HealthHandler", url |-> "", now |-> t,
                     ret |-> "nil", err |-> "", snap |-> URLSeq(availableServers),
                     pre |-> NoPre,
                     total_servers     |-> Len(config.Servers),
                     available_servers |-> Len(availableServers),
                     cooling_down      |-> coolingDownServers]
    /\ UNCHANGED << goroutines, config, selector, now, serverStatus, serverDownUntil,
                    failureCount, currentServerIndex, serverWeights,
                    orderedServers, backoffUntil, lastTick >>

-----------------------------------------------------------------------------
(* The headers of the outbound request, getHopByHopHeaders and the header    *)
(* loop of forwardRequest.  A string is a sequence of atoms: a word (a run   *)
(* of characters that are neither a comma nor white space, kept with its     *)
(* case), a comma or a space.  A header name is a word.                      *)

\* strings.ToLower on a word
ToLowerWord(w) ==
    CASE w = "Close"         -> "close"
      [] w = "Keep-Alive"    -> "keep-alive"
      [] w = "X-Custom"      -> "x-custom"
      [] w = "Authorization" -> "authorization"
      [] w = "Content-Type"  -> "content-type"
      [] w = "Connection"    -> "connection"
      [] w = "Upgrade"       -> "upgrade"
      [] w = "Host"          -> "host"
      [] OTHER               -> w

\* strings.ToLower
ToLower(str) == [i \in 1..Len(str) |-> ToLowerWord(str[i])]

\* strings.TrimSpace
RECURSIVE TrimLeft(_)
TrimLeft(str) ==
    IF str # << >> /\ Head(str) = " " THEN TrimLeft(Tail(str)) ELSE str

RECURSIVE TrimRight(_)
TrimRight(str) ==
    IF str # << >> /\ str[Len(str)] = " "
    THEN TrimRight(SubSeq(str, 1, Len(str) - 1)) ELSE str

TrimSpace(str) == TrimRight(TrimLeft(str))

\* strings.Split(str, ","): the tokens in order, `token` being the one that
\* is being read
RECURSIVE Split(_, _)
Split(str, token) ==
    IF str = << >> THEN << token >>
    ELSE IF Head(str) = "," THEN << token >> \o Split(Tail(str), << >>)
    ELSE Split(Tail(str), Append(token, Head(str)))

\* the fixed entries of hopByHopHeaders
FixedHopByHopHeaders ==
    { << "connection" >>, << "keep-alive" >>, << "proxy-authenticate" >>,
      << "proxy-authorization" >>, << "te" >>, << "trailers" >>,
      << "transfer-encoding" >>, << "upgrade" >> }

\* a variant of getHopByHopHeaders that compares and stores the tokens in
\* the case they came in
getHopByHopHeaders_KeepCase(connectionHeader) ==
    IF connectionHeader = << >> THEN FixedHopByHopHeaders
    ELSE LET connectionTokens == Split(connectionHeader, << >>)
             tokens == { TrimSpace(connectionTokens[i]) :
                            i \in 1..Len(connectionTokens) }
         IN  FixedHopByHopHeaders \cup
             (tokens \ { << >>, << "close" >>, << "keep-alive" >> })

\* getHopByHopHeaders: the keys of the map it returns
getHopByHopHeaders(connectionHeader) ==
    IF connectionHeader = << >> THEN FixedHopByHopHeaders
    ELSE LET connectionTokens == Split(connectionHeader, << >>)
             tokens == { ToLower(TrimSpace(connectionTokens[i])) :
                            i \in 1..Len(connectionTokens) }
         IN  FixedHopByHopHeaders \cup
             (tokens \ { << >>, << "close" >>, << "keep-alive" >> })

\* Header.Get: the first value of the key, "" for none
HeaderGet(header, key) ==
    IF key \in DOMAIN header /\ header[key] # << >>
    THEN header[key][1] ELSE << >>

\* the credential put in place of the client's
Bearer(token) == << "Bearer", " ", token >>

\* a variant of the header loop that tests the hop-by-hop set first
OutboundHeader_HopByHopFirst(header, token) ==
    LET hopByHopHeaders ==
            getHopByHopHeaders(HeaderGet(header, "Connection"))
               \cup { << "host" >> }
        kept == { key \in DOMAIN header :
                     << ToLowerWord(key) >> \notin hopByHopHeaders }
    IN  [key \in kept |->
            IF ToLowerWord(key) = "authorization"
            THEN << Bearer(token) >> ELSE header[key]]

\* the header loop of forwardRequest: req.Header when it is done, from the
\* inbound c.Request.Header (canonical keys, as net/http delivers them) and
\* the chosen server's Token
OutboundHeader(header, token) ==
    LET hopByHopHeaders ==
            getHopByHopHeaders(HeaderGet(header, "Connection"))
               \cup { << "host" >> }
        kept == { key \in DOMAIN header :
                     \/ ToLowerWord(key) = "authorization"
                     \/ << ToLowerWord(key) >> \notin hopByHopHeaders }
    IN  [key \in kept |->
            IF ToLowerWord(key) = "authorization"
            THEN << Bearer(token) >> ELSE header[key]]

\* the header part of one forwardRequest
ForwardHeaders ==
    /\ op.name = "request"
    /\ op' = [name      |-> "forwardRequest",
              header    |-> op.header,
              token     |-> op.token,
              hopByHop  |-> getHopByHopHeaders(
                                HeaderGet(op.header, "Connection")),
              outbound  |-> OutboundHeader(op.header, op.token)]
    /\ UNCHANGED << goroutines, config, selector, now, serverStatus, serverDownUntil,
                    failureCount, currentServerIndex, serverWeights,
                    orderedServers, backoffUntil, lastTick >>

-----------------------------------------------------------------------------
(* The streamed relay, the copy loop of forwardRequest: each turn reads from *)
(* the upstream body, writes what was read to the client and leaves the loop *)
(* when the read returned an error (io.EOF at the end of the body).  The     *)
(* client is gone from its write number op.goneAt on: that write and every   *)
(* later one fails.                                                          *)

ReadResult(data, err) == [data |-> data, err |-> err]

\* one turn of the loop: responseReader.Read, then c.Writer.Write when
\* n > 0, then the test of err
CopyStep ==
    /\ op.name = "stream"
    /\ ~op.done
    /\ LET r == op.upstream[op.reads + 1]
           write == [at |-> op.reads + 1, data |-> r.data,
                     ok |-> Len(op.writes) + 1 < op.goneAt]
       IN  op' = [op EXCEPT !.reads = op.reads + 1,
                            !.writes = IF r.data # "" THEN Append(@, write)
                                       ELSE @,
                            !.done = r.err]
    /\ UNCHANGED << goroutines, config, selector, now, serverStatus,
                    serverDownUntil, failureCount, currentServerIndex,
                    serverWeights, orderedServers, backoffUntil, lastTick >>

-----------------------------------------------------------------------------
(* The balance checker, BalanceChecker.checkServerBalance: one check of one  *)
(* server.  The checker holds the selector as a BalancerInterface, whose     *)
(* only method is MarkServerDown.  A float64 is NaN or a number.             *)

Float(nan, v) == [nan |-> nan, v |-> v]

\* a <= b on float64: false when either is NaN
LessEq(a, b) == ~a.nan /\ ~b.nan /\ a.v <= b.v

\* what ExecuteCommand returns: an error (the command failed, timed out or
\* printed something strconv.ParseFloat rejects) with balance 0, or a balance
CommandResults ==
    { [err |-> TRUE, balance |-> Float(FALSE, 0)] }
    \cup { [err |-> FALSE, balance |-> Float(FALSE, v)] : v \in {-1, 0, 1, 5, 6} }
    \cup { [err |-> FALSE, balance |-> Float(TRUE, 0)] }

\* a variant of checkServerBalance that also marks the server down when the
\* command failed
checkServerBalance_MarkOnError(server, result) ==
    IF result.err
       \/ LessEq(result.balance, Float(FALSE, server.BalanceThreshold))
    THEN << BalancerCall("MarkServerDown", server.URL) >>
    ELSE << >>

\* the calls one check makes on the balancer
checkServerBalance(server, result) ==
    IF result.err THEN << >>
    ELSE IF LessEq(result.balance, Float(FALSE, server.BalanceThreshold))
    THEN << BalancerCall("MarkServerDown", server.URL) >>
    ELSE << >>

BalanceCheck ==
    /\ selector # "none"
    /\ \E i \in 1..Len(config.Servers) : \E result \in CommandResults :
          LET server == config.Servers[i]
              calls == checkServerBalance(server, result)
              st == ApplyCalls(Health, calls, now)
          IN  /\ calls # << >> => failureCount[server.URL] < MaxFailures
              /\ SetHealth(st)
              /\ backoffUntil' =
                    IF calls = << >> THEN backoffUntil
                    ELSE [backoffUntil EXCEPT ![server.URL] =
                             st.serverDownUntil[server.URL]]
              /\ op' = [name      |-> "checkServerBalance",
                        url       |-> server.URL,
                        now       |-> now,
                        result    |-> result,
                        threshold |-> server.BalanceThreshold,
                        calls     |-> calls]
    /\ UNCHANGED << goroutines, config, selector, now, currentServerIndex,
                    serverWeights, orderedServers, lastTick >>

-----------------------------------------------------------------------------
(* Usage telemetry: parseSSEUsageInfo on the lines of an event-stream body.  *)
(* A value that may be missing, or of another JSON type than the code asks   *)
(* for, is a sequence of length 0 or 1.  A line is                           *)
(*   prefix  : it starts with "data: "                                       *)
(*   ping    : its text contains "type": "ping"                              *)
(*   payload : the JSON object the rest of it decodes to, none if it is      *)
(*             blank or does not decode                                      *)

ZeroUsage ==
    [InputTokens |-> 0, OutputTokens |-> 0,
     CacheCreationInputTokens |-> 0, CacheReadInputTokens |-> 0]

Number(value) == IF value = << >> THEN 0 ELSE value[1]

parseUsageFromMap(usageData) ==
    [InputTokens              |-> Number(usageData.input_tokens),
     OutputTokens             |-> Number(usageData.output_tokens),
     CacheCreationInputTokens |-> Number(usageData.cache_creation_input_tokens),
     CacheReadInputTokens     |-> Number(usageData.cache_read_input_tokens)]

Parsed(model, usage, success) ==
    [model |-> model, usage |-> usage, success |-> success]

\* a variant of the loop body in which message_delta adds the counters it
\* carries to the ones parsed so far
scanLine_Merge(acc, line) ==
    IF ~line.prefix \/ line.ping \/ line.payload = << >> THEN acc
    ELSE LET eventData == line.payload[1] IN
         IF eventData.type = << >> THEN acc
         ELSE IF eventData.type[1] = "message_start"
         THEN IF eventData.message = << >> THEN acc
              ELSE LET message == eventData.message[1] IN
                   Parsed(IF message.model # << >> THEN message.model[1]
                          ELSE acc.model,
                          IF message.usage # << >>
                          THEN parseUsageFromMap(message.usage[1])
                          ELSE acc.usage,
                          acc.success \/ message.usage # << >>)
         ELSE IF eventData.type[1] = "message_delta" /\ eventData.usage # << >>
         THEN LET u == parseUsageFromMap(eventData.usage[1]) IN
              Parsed(acc.model,
                     [InputTokens  |-> acc.usage.InputTokens + u.InputTokens,
                      OutputTokens |-> acc.usage.OutputTokens + u.OutputTokens,
                      CacheCreationInputTokens |->
                          acc.usage.CacheCreationInputTokens
                              + u.CacheCreationInputTokens,
                      CacheReadInputTokens |->
                          acc.usage.CacheReadInputTokens
                              + u.CacheReadInputTokens],
                     TRUE)
         ELSE acc

\* the body of the loop over the lines: the results so far, after the line
scanLine(acc, line) ==
    IF ~line.prefix \/ line.ping \/ line.payload = << >> THEN acc
    ELSE LET eventData == line.payload[1] IN
         IF eventData.type = << >> THEN acc
         ELSE IF eventData.type[1] = "message_start"
         THEN IF eventData.message = << >> THEN acc
              ELSE LET message == eventData.message[1] IN
                   Parsed(IF message.model # << >> THEN message.model[1]
                          ELSE acc.model,
                          IF message.usage # << >>
                          THEN parseUsageFromMap(message.usage[1])
                          ELSE acc.usage,
                          acc.success \/ message.usage # << >>)
         ELSE IF eventData.type[1] = "message_delta" /\ eventData.usage # << >>
         THEN Parsed(acc.model, parseUsageFromMap(eventData.usage[1]), TRUE)
         ELSE acc

RECURSIVE scanLines(_, _)
scanLines(acc, lines) ==
    IF lines = << >> THEN acc
    ELSE scanLines(scanLine(acc, Head(lines)), Tail(lines))

parseSSEUsageInfo(lines) == scanLines(Parsed("", ZeroUsage, FALSE), lines)

\* the response body has been read: parseUsageInfo on an event stream
ParseUsage ==
    /\ op.name = "response"
    /\ op' = [name   |-> "parseSSEUsageInfo",
              lines  |-> op.lines,
              parsed |-> parseSSEUsageInfo(op.lines)]
    /\ UNCHANGED << goroutines, config, selector, now, serverStatus,
                    serverDownUntil, failureCount, currentServerIndex,
                    serverWeights, orderedServers, backoffUntil, lastTick >>

-----------------------------------------------------------------------------
(* Concurrent calls.  Each goroutine makes one call on the selector, and the *)
(* call is followed lock operation by lock operation.  statusMutex is a      *)
(* sync.RWMutex: Lock takes the writers' mutex w, which announces the writer,*)
(* and then waits until the readers holding the lock have left; an RLock     *)
(* made while a writer is announced waits until that writer's Unlock.        *)
(* serverMutex is a sync.Mutex.  A critical section takes effect when its    *)
(* lock is released.                                                         *)

StatusWriters == {"MarkServerDown", "MarkServerHealthy", "RecoverServer"}

StatusReaders == {"SelectServer", "GetServerStatus"}

\* a variant of the methods in which the scan inside SelectServer takes the
\* read lock again
Program_NestedRLock(name) ==
    IF name \in StatusWriters THEN << "Lock", "Unlock" >>
    ELSE IF name = "SelectServer"
    THEN << "RLock", "RLock", "RUnlock", "RUnlock" >>
    ELSE << "RLock", "RUnlock" >>

\* the lock operations of a method from its first line to the end of the
\* section statusMutex guards
Program(name) ==
    IF name \in StatusWriters THEN << "Lock", "Unlock" >>
    ELSE << "RLock", "RUnlock" >>

\* the lock operations of the pick LoadBalancer.SelectServer makes on the
\* list GetAvailableServers returned; n as in LB_getRandomServer
PickProgram(algorithm, servers, n) ==
    IF Len(servers) = 0 THEN << >>
    ELSE IF algorithm = "weighted_round_robin" /\ Len(servers) = 1 THEN << >>
    ELSE IF algorithm = "random" /\ n >= 0 THEN << >>
    ELSE << "serverMutex.Lock", "serverMutex.Unlock" >>

\* a goroutine about to make the call
Goroutine(name, url) ==
    [name |-> name, url |-> url, todo |-> Program(name), holds |-> << >>,
     blocked |-> FALSE, snap |-> << >>, n |-> 0, ret |-> "nil", err |-> ""]

Holds(g, lock) == \E i \in 1..Len(g.holds) : g.holds[i] = lock

Holders(lock) == { p \in DOMAIN goroutines : Holds(goroutines[p], lock) }

DropOne(holds, lock) ==
    LET i == CHOOSE k \in 1..Len(holds) : holds[k] = lock
    IN  SubSeq(holds, 1, i - 1) \o SubSeq(holds, i + 1, Len(holds))

\* the call has not returned
Running(g) == g.todo # << >>

\* the next lock operation of the call does not have to wait
CanStep(g) ==
    /\ Running(g)
    /\ ~g.blocked
    /\ CASE Head(g.todo) = "Lock" ->
                IF Holds(g, "w") THEN Holders("RLock") = {}
                ELSE Holders("w") = {}
         [] Head(g.todo) = "serverMutex.Lock" -> Holders("serverMutex") = {}
         [] OTHER -> TRUE

\* the goroutine as it leaves the section statusMutex.RLock guards: what
\* SelectServer found there and the lock operations it goes on to
AfterRead(g, n) ==
    IF g.name # "SelectServer" \/ Running(g) THEN g
    ELSE IF selector = "LoadBalancer"
    THEN LET availableServers == LB_GetAvailableServersAt(now)
             todo == PickProgram(config.Algorithm, availableServers, n)
         IN  IF Len(availableServers) = 0
             THEN [g EXCEPT !.err = "no available servers"]
             ELSE IF todo = << >>
             THEN [g EXCEPT !.ret = availableServers[
                       LB_pick(config.Algorithm, availableServers,
                               currentServerIndex, serverWeights, n).sel].URL]
             ELSE [g EXCEPT !.todo = todo, !.snap = availableServers, !.n = n]
    ELSE LET r == FS_SelectServerAt(now, now)
         IN  [g EXCEPT !.ret = r.ret, !.err = r.err]

\* the three maps as the writer leaves them
Written(g) ==
    IF g.name = "RecoverServer" THEN RecoverServerSt(Health, g.url)
    ELSE ApplyCall(Health, BalancerCall(g.name, g.url), now)

\* go func() { selector.<name>(url) }()
Go(name, url) ==
    /\ selector # "none"
    /\ Len(goroutines) < MaxGoroutines
    /\ goroutines' = Append(goroutines, Goroutine(name, url))
    /\ UNCHANGED << config, selector, now, serverStatus, serverDownUntil,
                    failureCount, currentServerIndex, serverWeights,
                    orderedServers, op, backoffUntil, lastTick >>

\* goroutine p makes the next lock operation of its call
Step(p) ==
    LET g == goroutines[p]
        lockOp == Head(g.todo)
        rest == Tail(g.todo)
    IN
    /\ CanStep(g)
    /\ CASE lockOp = "RLock" ->
              /\ goroutines' = [goroutines EXCEPT ![p] =
                     IF Holders("w") # {} THEN [g EXCEPT !.blocked = TRUE]
                     ELSE [g EXCEPT !.holds = Append(@, "RLock"),
                                    !.todo = rest]]
              /\ UNCHANGED << serverStatus, serverDownUntil, failureCount,
                              currentServerIndex, serverWeights, backoffUntil >>
         [] lockOp = "RUnlock" ->
              /\ \E n \in RandomDraws(config.Algorithm,
                                      Len(LB_GetAvailableServersAt(now))) :
                    goroutines' = [goroutines EXCEPT ![p] =
                        AfterRead([g EXCEPT !.holds = DropOne(@, "RLock"),
                                            !.todo = rest], n)]
              /\ UNCHANGED << serverStatus, serverDownUntil, failureCount,
                              currentServerIndex, serverWeights, backoffUntil >>
         [] lockOp = "Lock" ->
              /\ goroutines' = [goroutines EXCEPT ![p] =
                     IF Holds(g, "w")
                     THEN [g EXCEPT !.holds = Append(@, "Lock"), !.todo = rest]
                     ELSE [g EXCEPT !.holds = Append(@, "w")]]
              /\ UNCHANGED << serverStatus, serverDownUntil, failureCount,
                              currentServerIndex, serverWeights, backoffUntil >>
         [] lockOp = "Unlock" ->
              /\ SetHealth(Written(g))
              /\ backoffUntil' = [backoffUntil EXCEPT ![g.url] =
                     IF g.name = "MarkServerDown"
                     THEN serverDownUntil'[g.url] ELSE ZeroTime]
              /\ goroutines' = [q \in DOMAIN goroutines |->
                     IF q = p
                     THEN [g EXCEPT !.todo = rest,
                               !.holds = SelectSeq(@,
                                   LAMBDA l : l \notin {"w", "Lock"})]
                     ELSE IF goroutines[q].blocked
                     THEN [goroutines[q] EXCEPT !.blocked = FALSE,
                               !.holds = Append(@, "RLock"),
                               !.todo = Tail(@)]
                     ELSE goroutines[q]]
              /\ UNCHANGED << currentServerIndex, serverWeights >>
         [] lockOp = "serverMutex.Lock" ->
              /\ goroutines' = [goroutines EXCEPT ![p] =
                     [g EXCEPT !.holds = Append(@, "serverMutex"),
                               !.todo = rest]]
              /\ UNCHANGED << serverStatus, serverDownUntil, failureCount,
                              currentServerIndex, serverWeights, backoffUntil >>
         [] lockOp = "serverMutex.Unlock" ->
              LET r == LB_pick(config.Algorithm, g.snap, currentServerIndex,
                               serverWeights, g.n)
              IN  /\ currentServerIndex' = r.index
                  /\ serverWeights' = r.weights
                  /\ goroutines' = [goroutines EXCEPT ![p] =
                         [g EXCEPT !.holds = DropOne(@, "serverMutex"),
                                   !.todo = rest,
                                   !.ret = g.snap[r.sel].URL]]
                  /\ UNCHANGED << serverStatus, serverDownUntil, failureCount,
                                  backoffUntil >>
    /\ UNCHANGED << config, selector, now, orderedServers, op, lastTick >>

-----------------------------------------------------------------------------
(* A tick of the passive sweeper beside the calls of the request goroutines. *)
(* GetServerStatus and each RecoverServer are critical sections of           *)
(* statusMutex; between them the sweeper holds no lock.  The sweeper's       *)
(* locals are the clock it read, the copy of the status map and its position *)
(* in config.Servers.                                                        *)

Sweeper(t, status, i) ==
    [name |-> "PassiveHealthCheck", now |-> t, status |-> status, i |-> i]

\* the sweeper is inside the loop of a tick
Sweeping ==
    /\ goroutines # << >>
    /\ goroutines[1].i <= Len(config.Servers)

\* a tick arrives: now := time.Now(); serverStatus := GetServerStatus()
SweepSnapshot ==
    /\ selector # "none"
    /\ TickDue
    /\ ~Sweeping
    /\ lastTick' = lastTick + config.Cooldown
    /\ goroutines' = << Sweeper(now, serverStatus, 1) >>
    /\ op' = [name |-> "GetServerStatus", url |-> "", now |-> now,
              ret |-> "nil", err |-> "", snap |-> << >>, pre |-> NoPre,
              status |-> serverStatus]
    /\ UNCHANGED << config, selector, now, serverStatus, serverDownUntil,
                    failureCount, currentServerIndex, serverWeights,
                    orderedServers, backoffUntil >>

\* the loop body on the next entry of config.Servers
SweepVisit ==
    /\ Sweeping
    /\ LET g == goroutines[1]
           server == config.Servers[g.i]
       IN  /\ SetHealth(IF ShouldRecover(server, g.status, g.now)
                        THEN RecoverServerSt(Health, server.URL)
                        ELSE Health)
           /\ goroutines' = << Sweeper(g.now, g.status, g.i + 1) >>
    /\ UNCHANGED << config, selector, now, currentServerIndex, serverWeights,
                    orderedServers, op, backoffUntil, lastTick >>

-----------------------------------------------------------------------------
(* Spec: both selectors over two servers, all operations, the clock moving *)

SpecServers == << Server("A", 1, 0), Server("B", 2, 0) >>

\* base cooldowns: the default of 60 s, one that reaches the cap at the second
\* failure, one above the cap
Cooldowns == {60, TimeStep, 3 * TimeStep}

Algorithms == {"round_robin", "weighted_round_robin", "random"}

SpecConfigs ==
    { Config("load_balance", a, SpecServers, c) : a \in Algorithms, c \in Cooldowns }
    \cup { Config("fallback", "round_robin", SpecServers, c) : c \in Cooldowns }

\* the state a constructor leaves, as an initial state
InitAs(cfg, st, weights, ordered) ==
    /\ config = cfg
    /\ selector = CreateSelector(cfg)
    /\ now = StartTime
    /\ serverStatus = st.serverStatus
    /\ serverDownUntil = st.serverDownUntil
    /\ failureCount = st.failureCount
    /\ currentServerIndex = 0
    /\ serverWeights = weights
    /\ orderedServers = ordered
    /\ op = NoOp
    /\ backoffUntil = [u \in URLsOf(cfg.Servers) |-> ZeroTime]
    /\ lastTick = StartTime
    /\ goroutines = << >>

InitConstructed(cfg) ==
    IF CreateSelector(cfg) = "LoadBalancer"
    THEN InitAs(cfg, LB_NewHealth(cfg.Servers), LB_NewWeights(cfg.Servers), << >>)
    ELSE InitAs(cfg, FS_NewHealth(cfg.Servers), << >>,
                FS_NewOrderedServers(cfg.Servers,
                    AscendingOrder(ExplicitPriorities(cfg.Servers))))

Init == \E cfg \in SpecConfigs : InitConstructed(cfg)

Next ==
    \/ \E u \in URLs : LB_MarkServerDown(u)
    \/ \E u \in URLs : LB_RecoverServer(u)
    \/ \E u \in URLs : LB_MarkServerHealthy(u)
    \/ LB_GetAvailableServers
    \/ LB_SelectServer
    \/ \E u \in URLs : FS_MarkServerDown(u)
    \/ \E u \in URLs : FS_RecoverServer(u)
    \/ \E u \in URLs : FS_MarkServerHealthy(u)
    \/ FS_GetAvailableServers
    \/ FS_SelectServer
    \/ GetServerStatus
    \/ Tick

Spec == Init /\ [][Next]_vars

-----------------------------------------------------------------------------
(* SpecPrio: NewFallbackSelector on every server list within the bounds *)

UrlNames == << "A", "B", "C", "D", "E" >>

\* the server list with the given weights and priorities, and the
\* configuration holding it
DrawnServers(n, wp) == [i \in 1..n |-> Server(UrlNames[i], wp[i][1], wp[i][2])]

InitPrio ==
    /\ \E n \in 0..MaxServers :
          \E wp \in [1..n -> (1..MaxWeight) \X (0..MaxPriority)] :
             config = Config("fallback", "round_robin", DrawnServers(n, wp), 60)
    /\ selector = "none"
    /\ now = StartTime
    /\ serverStatus = << >>
    /\ serverDownUntil = << >>
    /\ failureCount = << >>
    /\ currentServerIndex = 0
    /\ serverWeights = << >>
    /\ orderedServers = << >>
    /\ op = NoOp
    /\ backoffUntil = << >>
    /\ lastTick = StartTime
    /\ goroutines = << >>

NextPrio ==
    \/ NewFallbackSelector
    \/ FS_SelectServer
    \/ FS_GetAvailableServers

SpecPrio == InitPrio /\ [][NextPrio]_vars

-----------------------------------------------------------------------------
(* SpecWeighted: the LoadBalancer with weighted_round_robin over four        *)
(* servers that go down and come back                                        *)

WeightedServers ==
    << Server("A", 1, 0), Server("B", 1, 0), Server("C", 3, 0), Server("D", 3, 0) >>

\* in SpecWeighted a url is marked down once between two successes
MaxFailuresWeighted == 1

InitWeighted ==
    InitConstructed(Config("load_balance", "weighted_round_robin",
                           WeightedServers, 60))

NextWeighted ==
    \/ \E u \in URLs : failureCount[u] < MaxFailuresWeighted /\ LB_MarkServerDown(u)
    \/ \E u \in URLs : LB_MarkServerHealthy(u)
    \/ LB_SelectServer

SpecWeighted == InitWeighted /\ [][NextWeighted]_vars

-----------------------------------------------------------------------------
(* SpecFailover: the FallbackSelector over three servers with explicit       *)
(* priorities, and over an empty server list                                 *)

FailoverServers ==
    << Server("A", 1, 1), Server("B", 1, 2), Server("C", 1, 3) >>

FailoverConfigs ==
    { Config("fallback", "round_robin", FailoverServers, c) : c \in {60, TimeStep} }
    \cup { Config("fallback", "round_robin", << >>, 60) }

InitFailover == \E cfg \in FailoverConfigs : InitConstructed(cfg)

NextFailover ==
    \/ \E u \in URLs : FS_MarkServerDown(u)
    \/ \E u \in URLs : FS_RecoverServer(u)
    \/ \E u \in URLs : FS_MarkServerHealthy(u)
    \/ FS_SelectServer
    \/ Tick

SpecFailover == InitFailover /\ [][NextFailover]_vars

-----------------------------------------------------------------------------
(* SpecRotate: the LoadBalancer with round_robin over three servers that go  *)
(* down and come back                                                        *)

RotateServers ==
    << Server("A", 1, 0), Server("B", 1, 0), Server("C", 1, 0) >>

InitRotate ==
    InitConstructed(Config("load_balance", "round_robin", RotateServers, 60))

NextRotate ==
    \/ \E u \in URLs : failureCount[u] < MaxFailuresWeighted /\ LB_MarkServerDown(u)
    \/ \E u \in URLs : LB_MarkServerHealthy(u)
    \/ LB_SelectServer

SpecRotate == InitRotate /\ [][NextRotate]_vars

-----------------------------------------------------------------------------
(* SpecSmooth: the LoadBalancer with weighted_round_robin, freshly built,    *)
(* over servers that all stay selectable: weights 5, 3, 1 and every list of  *)
(* weights within the bounds                                                 *)

SmoothServers ==
    << Server("A", 5, 0), Server("B", 3, 0), Server("C", 1, 0) >>

InitSmooth ==
    \/ InitConstructed(Config("load_balance", "weighted_round_robin",
                              SmoothServers, 60))
    \/ \E n \in 1..MaxServers :
          \E w \in [1..n -> 1..MaxWeight] :
             InitConstructed(Config("load_balance", "weighted_round_robin",
                                    DrawnServers(n, [i \in 1..n |-> << w[i], 0 >>]),
                                    60))

NextSmooth ==
    \/ LB_SelectServer
    \/ LB_GetAvailableServers

SpecSmooth == InitSmooth /\ [][NextSmooth]_vars

-----------------------------------------------------------------------------
(* SpecSweep: a selector over two servers with the sweeper running; the only *)
(* RecoverServer calls are the sweeper's.  The clock does not pass a tick    *)
(* that is due, and MarkServerDown is called while a later tick lies within  *)
(* the time the model observes.                                              *)

SweepConfigs ==
    { Config(m, "round_robin", SpecServers, c) :
         m \in {"load_balance", "fallback"}, c \in {TimeStep, 2 * TimeStep} }

InitSweep == \E cfg \in SweepConfigs : InitConstructed(cfg)

TickAhead == lastTick + config.Cooldown <= MaxTime

NextSweep ==
    \/ \E u \in URLs : TickAhead /\ LB_MarkServerDown(u)
    \/ \E u \in URLs : LB_MarkServerHealthy(u)
    \/ LB_SelectServer
    \/ \E u \in URLs : TickAhead /\ FS_MarkServerDown(u)
    \/ \E u \in URLs : FS_MarkServerHealthy(u)
    \/ FS_SelectServer
    \/ PassiveHealthCheck
    \/ ~TickDue /\ Tick

SpecSweep == InitSweep /\ [][NextSweep]_vars

\* the ticker delivers its ticks and the clock keeps moving
SpecSweepFair ==
    /\ SpecSweep
    /\ WF_vars(PassiveHealthCheck)
    /\ WF_vars(~TickDue /\ Tick)

-----------------------------------------------------------------------------
(* SpecProxy: inbound requests handled one after another against either     *)
(* selector over two servers, the health endpoint queried in between, the    *)
(* clock moving                                                              *)

ProxyConfigs ==
    { Config(m, "round_robin", SpecServers, TimeStep) :
         m \in {"load_balance", "fallback"} }

InitProxy == \E cfg \in ProxyConfigs : InitConstructed(cfg)

NextProxy ==
    \/ Handler
    \/ HealthHandler
    \/ Tick

SpecProxy == InitProxy /\ [][NextProxy]_vars

-----------------------------------------------------------------------------
(* SpecHeaders: the header loop on inbound requests with every Connection    *)
(* value of up to MaxAtoms atoms                                             *)

MaxAtoms == 4

Atoms == { "Close", "keep-alive", "X-Custom", "Authorization", " ", "," }

\* the values a client sends as its credential
ClientCredentials == { << "Bearer", " ", "client-key-1" >>,
                       << "Bearer", " ", "client-key-2" >>,
                       << "Bearer", " ", "server-token" >> }

\* no selector is constructed yet: the variables a selector owns are empty
Idle ==
    /\ selector = "none"
    /\ now = StartTime
    /\ serverStatus = << >>
    /\ serverDownUntil = << >>
    /\ failureCount = << >>
    /\ currentServerIndex = 0
    /\ serverWeights = << >>
    /\ orderedServers = << >>
    /\ backoffUntil = << >>
    /\ lastTick = StartTime
    /\ goroutines = << >>

InitHeaders ==
    /\ Idle
    /\ config = Config("load_balance", "round_robin", << >>, 60)
    /\ \E n \in 0..MaxAtoms : \E connection \in [1..n -> Atoms] :
       \E optional \in SUBSET {"Authorization", "X-Custom", "Upgrade", "Host"} :
       \E credential \in ClientCredentials :
          op = [name   |-> "request",
                token  |-> "server-token",
                header |-> [key \in {"Connection", "Content-Type"} \cup optional |->
                              CASE key = "Connection"    -> << connection >>
                                [] key = "Authorization" -> << credential >>
                                [] key = "X-Custom"      -> << << "v1" >>, << "v2" >> >>
                                [] OTHER                 -> << << "value" >> >>]]

SpecHeaders == InitHeaders /\ [][ForwardHeaders]_vars

-----------------------------------------------------------------------------
(* SpecFactory: CreateSelector on configurations of every mode, with and     *)
(* without the legacy flag                                                   *)

Modes == { "load_balance", "fallback", "", "Fallback", "failover" }

InitFactory ==
    /\ Idle
    /\ op = NoOp
    /\ \E mode \in Modes, legacy \in BOOLEAN, n \in 0..MaxServers :
          \E wp \in [1..n -> (1..MaxWeight) \X {0}] :
             config = [Config(mode, "round_robin", DrawnServers(n, wp), 60)
                          EXCEPT !.Fallback = legacy]

NextFactory ==
    \/ NewLoadBalancer
    \/ NewFallbackSelector

SpecFactory == InitFactory /\ [][NextFactory]_vars

-----------------------------------------------------------------------------
(* SpecBalance: the balance checker and the sweeper on one selector over two *)
(* servers, one of them with a balance threshold, the clock moving; of a     *)
(* proxied call that succeeds, the MarkServerHealthy call it makes           *)

BalanceServers ==
    << [Server("A", 1, 0) EXCEPT !.BalanceThreshold = 5], Server("B", 2, 0) >>

BalanceConfigs ==
    { Config(m, "round_robin", BalanceServers, TimeStep) :
         m \in {"load_balance", "fallback"} }

InitBalance == \E cfg \in BalanceConfigs : InitConstructed(cfg)

NextBalance ==
    \/ BalanceCheck
    \/ PassiveHealthCheck
    \/ \E u \in URLs : LB_MarkServerHealthy(u)
    \/ \E u \in URLs : FS_MarkServerHealthy(u)
    \/ Tick

SpecBalance == InitBalance /\ [][NextBalance]_vars

-----------------------------------------------------------------------------
(* SpecStream: streamed relays of upstream bodies of up to MaxReads reads,   *)
(* the last of which returns the error, with or without data; the client     *)
(* stays to the end or leaves before one of the writes                       *)

InitStream ==
    /\ Idle
    /\ config = Config("load_balance", "round_robin", << >>, 60)
    /\ \E n \in 1..MaxReads : \E chunks \in [1..n -> {"", "chunk1", "chunk2"}] :
       \E goneAt \in 1..(n + 1) :
          /\ \A i \in 1..(n - 1) : chunks[i] # ""
          /\ op = [name     |-> "stream",
                   upstream |-> [i \in 1..n |-> ReadResult(chunks[i], i = n)],
                   goneAt   |-> goneAt,
                   reads    |-> 0,
                   writes   |-> << >>,
                   done     |-> FALSE]

SpecStream == InitStream /\ [][CopyStep]_vars

-----------------------------------------------------------------------------
(* SpecUsage: event-stream bodies of up to MaxLines lines: message_start     *)
(* with and without a message, a model and a usage object, message_delta     *)
(* with and without a usage object, usage objects with any of the four       *)
(* counters missing, pings, other events, lines that are not data lines or   *)
(* do not decode                                                             *)

UsageMaps(output) ==
    [input_tokens                : {<< >>, << 10 >>},
     output_tokens               : {<< >>, << output >>},
     cache_creation_input_tokens : {<< >>, << 2 >>},
     cache_read_input_tokens     : {<< >>, << 3 >>}]

Optional(values) == {<< >>} \cup { << v >> : v \in values }

EventData(type, message, usage) ==
    [type |-> type, message |-> message, usage |-> usage]

Line(prefix, ping, payload) ==
    [prefix |-> prefix, ping |-> ping, payload |-> payload]

Lines ==
    { Line(TRUE, FALSE, << EventData(<< "message_start" >>, message, << >>) >>) :
        message \in Optional([model : Optional({"claude-a", "claude-b"}),
                              usage : Optional(UsageMaps(5))]) }
    \cup { Line(TRUE, FALSE, << EventData(<< "message_delta" >>, << >>, usage) >>) :
             usage \in Optional(UsageMaps(30)) }
    \cup { Line(b[1], b[2],
                << EventData(<< "message_delta" >>, << >>,
                     << [input_tokens                |-> << >>,
                         output_tokens               |-> << 30 >>,
                         cache_creation_input_tokens |-> << >>,
                         cache_read_input_tokens     |-> << >>] >>) >>) :
             b \in (BOOLEAN \X BOOLEAN) \ {<< TRUE, FALSE >>} }
    \cup { Line(TRUE, FALSE, payload) :
             payload \in Optional({
                 EventData(<< >>, << >>, << >>),
                 EventData(<< "content_block_delta" >>, << >>, << >>) }) }

InitUsage ==
    /\ Idle
    /\ config = Config("load_balance", "round_robin", << >>, 60)
    /\ \E n \in 0..MaxLines : \E lines \in [1..n -> Lines] :
          op = [name |-> "response", lines |-> lines]

SpecUsage == InitUsage /\ [][ParseUsage]_vars

-----------------------------------------------------------------------------
(* SpecLocks: goroutines calling one selector at the same time, each of      *)
(* them one of SelectServer, GetServerStatus, MarkServerDown,                *)
(* MarkServerHealthy and RecoverServer; either selector, every algorithm     *)

LockConfigs ==
    { Config("load_balance", a, SpecServers, TimeStep) : a \in Algorithms }
    \cup { Config("fallback", "round_robin", SpecServers, TimeStep) }

InitLocks == \E cfg \in LockConfigs : InitConstructed(cfg)

NextLocks ==
    \/ \E name \in StatusWriters, u \in URLs : Go(name, u)
    \/ \E name \in StatusReaders : Go(name, "")
    \/ \E p \in DOMAIN goroutines : Step(p)

SpecLocks == InitLocks /\ [][NextLocks]_vars

\* the scheduler does not leave every goroutine that can run waiting
SpecLocksFair ==
    /\ SpecLocks
    /\ WF_vars(\E p \in DOMAIN goroutines : Step(p))

-----------------------------------------------------------------------------
(* SpecSweepRace: a selector over two servers, the sweeper's tick taken one  *)
(* critical section at a time beside MarkServerDown and MarkServerHealthy    *)

NextSweepRace ==
    \/ \E u \in URLs : TickAhead /\ LB_MarkServerDown(u)
    \/ \E u \in URLs : LB_MarkServerHealthy(u)
    \/ \E u \in URLs : TickAhead /\ FS_MarkServerDown(u)
    \/ \E u \in URLs : FS_MarkServerHealthy(u)
    \/ SweepSnapshot
    \/ SweepVisit
    \/ ~TickDue /\ Tick

SpecSweepRace == InitSweep /\ [][NextSweepRace]_vars

-----------------------------------------------------------------------------
(* SpecOrder: NewFallbackSelector on every server list within the bounds,    *)
(* then the health operations and selections on the selector it built; a url *)
(* is marked down once between two successes                                 *)

\* equal and different weights; no priority, and explicit priorities that
\* coincide or differ
OrderWeights == {1, 2}
OrderPriorities == {0, 1, 2}

InitOrder ==
    /\ \E n \in 0..MaxServers :
          \E wp \in [1..n -> OrderWeights \X OrderPriorities] :
             config = Config("fallback", "round_robin", DrawnServers(n, wp), 60)
    /\ selector = "none"
    /\ now = StartTime
    /\ serverStatus = << >>
    /\ serverDownUntil = << >>
    /\ failureCount = << >>
    /\ currentServerIndex = 0
    /\ serverWeights = << >>
    /\ orderedServers = << >>
    /\ op = NoOp
    /\ backoffUntil = << >>
    /\ lastTick = StartTime
    /\ goroutines = << >>

NextOrder ==
    \/ NewFallbackSelector
    \/ \E u \in URLs : FS_Running /\ failureCount[u] = 0 /\ FS_MarkServerDown(u)
    \/ \E u \in URLs : FS_Running /\ ~serverStatus[u] /\ FS_RecoverServer(u)
    \/ \E u \in URLs : FS_Running /\ ~serverStatus[u] /\ FS_MarkServerHealthy(u)
    \/ FS_SelectServer

SpecOrder == InitOrder /\ [][NextOrder]_vars

-----------------------------------------------------------------------------
(* Properties *)

\* selectable, as the data model defines it
Selectable(u) == serverStatus[u] /\ now > serverDownUntil[u]

\* C1: in both selectors GetAvailableServers returns exactly the configured
\* servers whose available flag is true and whose cooldownUntil is strictly
\* before the now the call read, each once.
C1_AvailableExact ==
    op.name = "GetAvailableServers" =>
        /\ Range(op.snap) =
              { u \in URLs : serverStatus[u] /\ serverDownUntil[u] < op.now }
        /\ Cardinality(Range(op.snap)) = Len(op.snap)

\* GetAvailableServers has left out a server whose cooldown has passed but
\* which is still flagged unavailable, and returned the other one
C1_Witness ==
    /\ op.name = "GetAvailableServers"
    /\ Len(op.snap) = 1
    /\ \E u \in URLs : ~serverStatus[u] /\ serverDownUntil[u] < op.now

\* C2: Balancing SelectServer returns a server of the snapshot it took, and
\* returns the "no available servers" error with a nil server exactly when
\* that snapshot is empty; it never returns both a server and an error.
C2_SelectFromSnapshot ==
    (selector = "LoadBalancer" /\ op.name = "SelectServer") =>
        /\ (op.snap = << >>) <=>
              (op.ret = "nil" /\ op.err = "no available servers")
        /\ op.snap # << >> => (op.ret \in Range(op.snap) /\ op.err = "")
        /\ ~(op.ret # "nil" /\ op.err # "")

\* C3: MarkServerDown sets available = false and
\* cooldownUntil = now + min(baseCooldown * failureCount, 10 minutes), for
\* every failure count from 1 on.
C3_CooldownCappedProduct ==
    op.name = "MarkServerDown" =>
        /\ ~serverStatus[op.url]
        /\ serverDownUntil[op.url] =
              op.now + Min(config.Cooldown * failureCount[op.url], MaxCooldown)

\* the entries of u in the three maps do not change in the step
SameEntry(u) ==
    /\ serverStatus'[u] = serverStatus[u]
    /\ serverDownUntil'[u] = serverDownUntil[u]
    /\ failureCount'[u] = failureCount[u]

\* the step is the call name(u)
StepOn(name, u) == op'.name = name /\ op'.url = u

\* C4: after MarkServerHealthy(url) in either selector, whatever the state of
\* the url before, failureCount[url] is 0, the url is available with its
\* cooldownUntil cleared and it is selectable at once; every other url keeps
\* its state.
C4_MarkHealthyResets ==
    [][\A u \in URLs :
          StepOn("MarkServerHealthy", u) =>
              /\ failureCount'[u] = 0
              /\ serverStatus'[u]
              /\ serverDownUntil'[u] = ZeroTime
              /\ Selectable(u)'
              /\ \A v \in URLs \ {u} : SameEntry(v)]_vars

\* MarkServerHealthy has brought back a url that was cooling after repeated
\* failures while another url stays down
C4_Witness ==
    /\ op.name = "MarkServerHealthy"
    /\ ~op.pre.serverStatus
    /\ op.pre.serverDownUntil >= op.now
    /\ op.pre.failureCount >= 2
    /\ Selectable(op.url)
    /\ \E v \in URLs \ {op.url} : ~serverStatus[v] /\ failureCount[v] >= 1

\* C5: RecoverServer(url) sets the available flag and clears cooldownUntil
\* whatever the state of the url, and changes neither failureCount[url] nor
\* any entry of another url; a MarkServerDown(url) that comes right after it
\* counts on from the failure count the recovery left, and backs off by it.
C5_RecoverKeepsFailures ==
    [][\A u \in URLs :
          /\ StepOn("RecoverServer", u) =>
                /\ serverStatus'[u]
                /\ serverDownUntil'[u] = ZeroTime
                /\ failureCount'[u] = failureCount[u]
                /\ \A v \in URLs \ {u} : SameEntry(v)
          /\ (op.name = "RecoverServer" /\ op.url = u /\ failureCount[u] >= 1
                /\ StepOn("MarkServerDown", u)) =>
                /\ failureCount'[u] = op.pre.failureCount + 1
                /\ serverDownUntil'[u] =
                      now + Min(config.Cooldown * (op.pre.failureCount + 1),
                                MaxCooldown)]_vars

\* RecoverServer has brought back a url that was still cooling after two
\* failures; its failure count stands
C5_Witness ==
    /\ op.name = "RecoverServer"
    /\ ~op.pre.serverStatus
    /\ op.pre.serverDownUntil >= op.now
    /\ op.pre.failureCount = 2
    /\ failureCount[op.url] = 2
    /\ serverStatus[op.url]

\* C6: MarkServerHealthy on a url that is available with failureCount 0
\* changes nothing of the selector, and a second MarkServerHealthy on the same
\* url right after the first changes nothing either.
C6_MarkHealthyIdempotent ==
    [][\A u \in URLs :
          /\ (StepOn("MarkServerHealthy", u) /\ serverStatus[u]
                /\ failureCount[u] = 0) =>
                UNCHANGED << config, selector, serverStatus, serverDownUntil,
                             failureCount, currentServerIndex, serverWeights,
                             orderedServers >>
          /\ (op.name = "MarkServerHealthy" /\ op.url = u
                /\ StepOn("MarkServerHealthy", u)) =>
                UNCHANGED << config, selector, serverStatus, serverDownUntil,
                             failureCount, currentServerIndex, serverWeights,
                             orderedServers >>]_vars

\* MarkServerHealthy has run on a url that was available with failureCount 0,
\* while the other urls are down
C6_Witness ==
    /\ op.name = "MarkServerHealthy"
    /\ op.pre.serverStatus
    /\ op.pre.failureCount = 0
    /\ \A v \in URLs \ {op.url} : ~serverStatus[v] /\ failureCount[v] >= 1

\* C7: a server stops being selectable only in a MarkServerDown step on it
\* and becomes selectable only in a MarkServerHealthy or RecoverServer step on
\* it; neither the clock nor a call on another url changes it.
C7_SelectabilityChanges ==
    [][\A u \in URLs :
          /\ (Selectable(u) /\ ~Selectable(u)') => StepOn("MarkServerDown", u)
          /\ (~Selectable(u) /\ Selectable(u)') =>
                (StepOn("MarkServerHealthy", u) \/ StepOn("RecoverServer", u))]_vars

\* the clock has just passed the cooldown of a url, which is still not
\* selectable
C7_Witness ==
    /\ op = NoOp
    /\ \E u \in URLs :
          /\ ~Selectable(u)
          /\ serverDownUntil[u] < now
          /\ serverDownUntil[u] >= now - TimeStep

\* the three states of a server
Up(u) == serverStatus[u] /\ serverDownUntil[u] = ZeroTime
Cooling(u) == ~serverStatus[u] /\ ~(now > serverDownUntil[u])
Recoverable(u) == ~serverStatus[u] /\ now > serverDownUntil[u]

\* C8: in every state of either selector each configured server is in exactly
\* one of Up, Cooling and Recoverable; an available server has a zero
\* cooldownUntil, so none is available with a cooldownUntil in the future.
C8_ThreeStates ==
    selector # "none" =>
        \A u \in URLs :
           /\ serverStatus[u] => serverDownUntil[u] = ZeroTime
           /\ Cardinality({ k \in 1..3 :
                  << Up(u), Cooling(u), Recoverable(u) >>[k] }) = 1

\* one url is cooling and another is recoverable
C8_Witness ==
    /\ selector = "FallbackSelector"
    /\ \E u, v \in URLs : Cooling(u) /\ Recoverable(v)

\* C9: for every server list the list NewFallbackSelector builds has pairwise
\* distinct effective priorities and is sorted strictly ascending by them.
C9_PrioritiesUniqueAscending ==
    selector = "FallbackSelector" =>
        \A i, j \in 1..Len(orderedServers) :
           i < j => orderedServers[i].Priority < orderedServers[j].Priority

\* the configured server with the given url, and its position
Configured(u) == CHOOSE s \in Range(config.Servers) : s.URL = u
ConfigPos(u) == CHOOSE i \in 1..Len(config.Servers) : config.Servers[i].URL = u

\* the urls configured with Priority 0, and those with an explicit priority
AutoURLs == { u \in URLs : Configured(u).Priority = 0 }
ExplicitURLs == { u \in URLs : Configured(u).Priority > 0 }

\* the highest effective priority of an explicit-priority server, 0 without one
MaxExplicit ==
    LET ps == { orderedServers[i].Priority :
                  i \in { k \in 1..Len(orderedServers) :
                            orderedServers[k].URL \in ExplicitURLs } }
    IN  IF ps = {} THEN 0 ELSE CHOOSE p \in ps : \A q \in ps : q <= p

\* the place of an auto-priority url among the auto-priority urls: by
\* descending weight, equal weights in configuration order
AutoRank(u) ==
    1 + Cardinality({ v \in AutoURLs :
            \/ Configured(v).Weight > Configured(u).Weight
            \/ /\ Configured(v).Weight = Configured(u).Weight
               /\ ConfigPos(v) < ConfigPos(u) })

FirstSelectable ==
    LET ps == { i \in 1..Len(orderedServers) : Selectable(orderedServers[i].URL) }
    IN  IF ps = {} THEN 0 ELSE CHOOSE i \in ps : \A j \in ps : i <= j

\* C11: whenever a server is selectable the FallbackSelector's SelectServer
\* returns the selectable server that comes first in orderedServers, without
\* an error; so calls between which the health does not change return the
\* same server, and with the servers of priority 1..k marked down the call
\* returns the server of priority k+1.
C11_FirstSelectable ==
    (selector = "FallbackSelector" /\ op.name = "SelectServer"
        /\ FirstSelectable # 0) =>
        /\ op.ret = orderedServers[FirstSelectable].URL
        /\ op.err = ""

\* the servers of priority 1 and 2 are marked down and SelectServer has
\* returned the server of priority 3
C11_Witness ==
    /\ selector = "FallbackSelector"
    /\ op.name = "SelectServer"
    /\ Len(orderedServers) = 3
    /\ ~serverStatus[orderedServers[1].URL]
    /\ ~serverStatus[orderedServers[2].URL]
    /\ FirstSelectable = 3
    /\ op.ret = orderedServers[3].URL

\* the positions in orderedServers whose recorded cooldown has passed, and
\* those with the smallest remaining cooldown
Lapsed ==
    { i \in 1..Len(orderedServers) : now > serverDownUntil[orderedServers[i].URL] }
LeastRemaining ==
    { i \in 1..Len(orderedServers) :
        \A j \in 1..Len(orderedServers) :
           serverDownUntil[orderedServers[i].URL]
              <= serverDownUntil[orderedServers[j].URL] }

\* C12: when no server is selectable the FallbackSelector's SelectServer
\* returns the first server in priority order whose cooldownUntil, as
\* MarkServerDown recorded it, has passed, and when every server is still
\* cooling a server with the smallest remaining cooldown.
C12_EmergencyByCooldown ==
    (selector = "FallbackSelector" /\ op.name = "SelectServer"
        /\ orderedServers # << >> /\ FirstSelectable = 0) =>
        IF Lapsed # {}
        THEN op.ret = orderedServers[CHOOSE i \in Lapsed :
                                        \A j \in Lapsed : i <= j].URL
        ELSE \E i \in LeastRemaining : op.ret = orderedServers[i].URL

\* C13: the FallbackSelector's SelectServer returns an error, "no available
\* servers" with a nil server, only for an empty server list; for a non-empty
\* list it returns a configured server and no error in every health state.
C13_ErrorOnlyWhenEmpty ==
    (selector = "FallbackSelector" /\ op.name = "SelectServer") =>
        /\ (op.err # "") <=> (config.Servers = << >>)
        /\ op.err # "" => (op.ret = "nil" /\ op.err = "no available servers")
        /\ op.err = "" => op.ret \in URLs

\* every server is marked down and still cooling, and SelectServer has
\* returned a configured server
C13_Witness ==
    /\ selector = "FallbackSelector"
    /\ op.name = "SelectServer"
    /\ Len(config.Servers) = 3
    /\ \A u \in URLs : ~serverStatus[u] /\ serverDownUntil[u] > now
    /\ op.ret \in URLs
    /\ op.err = ""

\* the urls the next k calls of getRoundRobinServer return on the same
\* servers, the cursor being at index
RECURSIVE RoundRobinPicks(_, _, _)
RoundRobinPicks(servers, index, k) ==
    IF k = 0 THEN << >>
    ELSE LET r == LB_getRoundRobinServer(servers, index, serverWeights)
         IN  << servers[r.sel].URL >> \o RoundRobinPicks(servers, r.index, k - 1)

\* position of url in the list of urls
PosIn(urls, u) == CHOOSE i \in 1..Len(urls) : urls[i] = u

\* C14: with round_robin and N selectable servers that stay the same, the
\* next N SelectServer calls, wherever the cursor stands, return each of the
\* N servers once, each call the server that follows the previous one in the
\* cyclic configuration order; a call returns the server at the position the
\* advanced cursor designates.
C14_RoundRobinWindow ==
    (selector = "LoadBalancer" /\ config.Algorithm = "round_robin") =>
        /\ LET servers == LB_GetAvailableServersAt(now)
               N == Len(servers)
               picks == RoundRobinPicks(servers, currentServerIndex, N)
           IN  /\ Range(picks) = URLsOf(servers)
               /\ \A k \in 1..(N - 1) :
                     PosIn(URLSeq(servers), picks[k + 1]) =
                        (PosIn(URLSeq(servers), picks[k]) % N) + 1
        /\ (op.name = "SelectServer" /\ op.snap # << >>) =>
              op.ret = op.snap[(currentServerIndex % Len(op.snap)) + 1]

\* the third selection in a row over the three servers has wrapped around to
\* the first one
C14_Witness ==
    /\ selector = "LoadBalancer"
    /\ config.Algorithm = "round_robin"
    /\ op.name = "SelectServer"
    /\ currentServerIndex = 3
    /\ op.snap = << "A", "B", "C" >>
    /\ op.ret = "A"
    /\ \A u \in URLs : failureCount[u] = 0 /\ serverStatus[u]

\* the urls the next k calls of getWeightedServer return on the same servers,
\* the accumulators being weights ("nil" for a call that returns none)
RECURSIVE WeightedPicks(_, _, _)
WeightedPicks(servers, weights, k) ==
    IF k = 0 THEN << >>
    ELSE LET r == LB_getWeightedServer(servers, currentServerIndex, weights)
         IN  << IF r.sel = 0 THEN "nil" ELSE servers[r.sel].URL >>
             \o WeightedPicks(servers, r.weights, k - 1)

\* how many times u occurs in the sequence
Count(seq, u) == Cardinality({ k \in 1..Len(seq) : seq[k] = u })

\* C15: with weighted_round_robin on a freshly built selector whose servers
\* all stay selectable, every window of totalWeight selections in a row picks
\* each server as many times as its weight; with the weights 5, 3, 1 that is
\* 5, 3 and 1 times in 9, and the weight-1 server is never picked twice in a
\* row.
C15_SmoothWindow ==
    (selector = "LoadBalancer" /\ config.Algorithm = "weighted_round_robin"
        /\ LB_GetAvailableServersAt(now) = config.Servers) =>
        LET servers == config.Servers
            total == LB_totalWeight(servers)
            picks == WeightedPicks(servers, serverWeights, total)
        IN  /\ \A i \in 1..Len(servers) :
                  Count(picks, servers[i].URL) = LB_weight(servers[i])
            /\ servers = SmoothServers =>
                  /\ total = 9
                  /\ \A k \in 1..(total - 1) :
                        ~(picks[k] = "C" /\ picks[k + 1] = "C")
                  /\ ~(op.name = "SelectServer" /\ op.ret = "C" /\ picks[1] = "C")

\* the seventh selection over the weights 5, 3, 1 has picked the weight-1
\* server
C15_Witness ==
    /\ selector = "LoadBalancer"
    /\ config.Servers = SmoothServers
    /\ op.name = "SelectServer"
    /\ op.ret = "C"
    /\ serverWeights = [A |-> 4, B |-> 6, C |-> -1]

\* C16: a tick of the passive sweeper calls RecoverServer exactly for the
\* servers that are flagged unavailable and whose cooldownUntil, as the
\* selector's MarkServerDown recorded it, has passed: never for a server
\* whose cooldown has not passed, never for an available one.
C16_SweeperRecoversExpired ==
    [][op'.name = "PassiveHealthCheck" =>
          Range(op'.snap) =
             { u \in URLs : ~serverStatus[u] /\ now > serverDownUntil[u] }]_vars

\* C17: in load_balance mode with the sweeper running, a server that was
\* marked down is not returned by SelectServer before the cooldownUntil that
\* MarkServerDown recorded, unless MarkServerHealthy was called for it since.
C17_CooldownWaitedOut ==
    (selector = "LoadBalancer" /\ op.name = "SelectServer" /\ op.ret \in URLs) =>
        now >= backoffUntil[op.ret]

\* the last call was MarkServerDown on u
JustMarked(u) == op.name = "MarkServerDown" /\ op.url = u

\* C18: with the sweeper's ticks delivered and the clock moving, a server
\* that is marked down becomes selectable again unless MarkServerDown is
\* called on it once more, whether or not any request is made: at any time
\* the server is selectable later on, or has just been marked down again.
C18_EventuallySelectable ==
    \A u \in URLsOf(SpecServers) : []<>(Selectable(u) \/ JustMarked(u))

\* a tick of the sweeper has brought back a server that was marked down, and
\* it is selectable with its failures still counted
C18_Witness ==
    /\ op.name = "PassiveHealthCheck"
    /\ op.snap # << >>
    /\ \A i \in 1..Len(op.snap) :
          Selectable(op.snap[i]) /\ failureCount[op.snap[i]] >= 1

\* the upstream answered with a status of 500 or more, or 429
ServerErrorStatus(up) ==
    up.built /\ ~up.failed /\ (up.status >= 500 \/ up.status = 429)

\* the upstream answered with a status from 400 to 499 other than 429
ClientErrorStatus(up) ==
    /\ up.built /\ ~up.failed
    /\ up.status >= 400 /\ up.status <= 499 /\ up.status # 429

\* the handler ran and a server was chosen
Forwarded(o) == o.name = "Handler" /\ o.err = ""

\* C19: for every upstream response with status >= 500 or 429, buffered or
\* streamed, the pipeline calls MarkServerDown on the chosen server exactly
\* once, does not call MarkServerHealthy, and the client receives the
\* handler's own 502 response, without the upstream's status or body.
C19_ServerErrorMarksDown ==
    (Forwarded(op) /\ ServerErrorStatus(op.upstream)) =>
       /\ op.calls = << BalancerCall("MarkServerDown", op.url) >>
       /\ op.client = ClientResponse(502, "Request failed", << >>)

\* the entries of url u are the same after the step as before it
Untouched(u) ==
    /\ serverStatus'[u] = serverStatus[u]
    /\ serverDownUntil'[u] = serverDownUntil[u]
    /\ failureCount'[u] = failureCount[u]

SuccessStatus(up) ==
    up.built /\ ~up.failed /\ up.status >= 200 /\ up.status <= 399

\* C21: for every upstream response with status 200-399 the pipeline calls
\* MarkServerHealthy on the chosen server, and after the request its
\* failureCount is 0 and it is selectable, whatever was recorded before.
C21_SuccessMarksHealthy ==
    (Forwarded(op) /\ SuccessStatus(op.upstream)) =>
       /\ op.calls = << BalancerCall("MarkServerHealthy", op.url) >>
       /\ failureCount[op.url] = 0
       /\ Selectable(op.url)

HeadersForwarded == op.name = "forwardRequest"

\* the inbound request with another value for its Authorization header
WithCredential(header, credential) ==
    [header EXCEPT !["Authorization"] = << credential >>]

\* C24: the Authorization value sent upstream does not depend on the
\* client's: an inbound request that carries Authorization gives the same
\* outbound headers whatever the value of that header, and these carry
\* exactly "Bearer " + the chosen server's token, also when the Connection
\* header names authorization.
C24_CredentialReplaced ==
    (HeadersForwarded /\ "Authorization" \in DOMAIN op.header) =>
       /\ "Authorization" \in DOMAIN op.outbound
       /\ op.outbound["Authorization"] = << Bearer(op.token) >>
       /\ \A credential \in ClientCredentials :
             OutboundHeader(WithCredential(op.header, credential), op.token)
                = op.outbound

\* the Connection header names authorization and the client sent a
\* credential of its own
C24_Witness ==
    /\ HeadersForwarded
    /\ << "authorization" >> \in op.hopByHop
    /\ "Authorization" \in DOMAIN op.header
    /\ op.header["Authorization"] = << << "Bearer", " ", "client-key-1" >> >>
    /\ op.outbound["Authorization"] = << << "Bearer", " ", "server-token" >> >>

\* the comma-separated tokens of a string: the part from position i to j,
\* between two commas or ends, without a comma in it
TokensOf(str) ==
    { SubSeq(str, p[1], p[2]) :
         p \in { q \in (1..(Len(str) + 1)) \X (0..Len(str)) :
                    /\ q[2] >= q[1] - 1
                    /\ \A k \in q[1]..q[2] : str[k] # ","
                    /\ q[1] = 1 \/ str[q[1] - 1] = ","
                    /\ q[2] = Len(str) \/ str[q[2] + 1] = "," } }

\* a token without the spaces around it, in lower case
Trimmed(tok) ==
    LET filled == { k \in 1..Len(tok) : tok[k] # " " }
    IN  IF filled = { } THEN << >>
        ELSE LET first == CHOOSE k \in filled : \A l \in filled : k <= l
                 last  == CHOOSE k \in filled : \A l \in filled : k >= l
             IN  [k \in 1..(last - first + 1) |->
                    ToLowerWord(tok[first + k - 1])]

\* C25: getHopByHopHeaders returns exactly the fixed set united with the
\* lower-cased, trimmed, non-empty comma-separated tokens of the Connection
\* value other than "close" and "keep-alive", and no inbound header whose
\* lower-cased name is in that set or is "host" is copied to the outbound
\* request: it is absent from it, Authorization alone being present with the
\* server's credential in place of the client's value.
C25_HopByHopStripped ==
    HeadersForwarded =>
       /\ op.hopByHop =
             FixedHopByHopHeaders \cup
             ({ Trimmed(tok) : tok \in TokensOf(HeaderGet(op.header, "Connection")) }
                 \ { << >>, << "close" >>, << "keep-alive" >> })
       /\ \A key \in DOMAIN op.header :
             << ToLowerWord(key) >> \in op.hopByHop \cup { << "host" >> } =>
                \/ key \notin DOMAIN op.outbound
                \/ /\ key = "Authorization"
                   /\ op.outbound[key] = << Bearer(op.token) >>
       /\ \A key \in DOMAIN op.outbound : key \in DOMAIN op.header

\* "Close , X-Custom": X-Custom is stripped with the fixed set, close is not
\* an entry
C25_Witness ==
    /\ HeadersForwarded
    /\ HeaderGet(op.header, "Connection") = << "Close", " ", ",", "X-Custom" >>
    /\ op.hopByHop = FixedHopByHopHeaders \cup { << "x-custom" >> }
    /\ "X-Custom" \in DOMAIN op.header
    /\ DOMAIN op.outbound = DOMAIN op.header \ {"Connection", "X-Custom", "Upgrade", "Host"}

\* C26: the health endpoint reports total_servers = number of configured
\* servers, available_servers = number of servers selectable at the time it
\* read, and cooling_down = number of servers that are unavailable with a
\* cooldownUntil, as recorded by the selector, in the future; so the last two
\* never add up to more than the first, and cooling_down is not zero while a
\* server marked down is in its cooldown.
C26_HealthCounts ==
    op.name = "HealthHandler" =>
       /\ op.total_servers = Cardinality(URLs)
       /\ op.available_servers =
             Cardinality({ u \in URLs :
                              serverStatus[u] /\ op.now > serverDownUntil[u] })
       /\ op.cooling_down =
             Cardinality({ u \in URLs :
                              ~serverStatus[u] /\ now < serverDownUntil[u] })
       /\ op.available_servers + op.cooling_down <= op.total_servers

\* C27: CreateSelector gives the LoadBalancer for mode "load_balance"
\* whatever the legacy flag, the FallbackSelector for mode "fallback", and
\* for any other mode the FallbackSelector exactly when the legacy flag is
\* true; it gives no error.
C27_SelectorByMode ==
    op.name \in {"NewLoadBalancer", "NewFallbackSelector"} =>
       /\ op.err = ""
       /\ config.Mode = "load_balance" => selector = "LoadBalancer"
       /\ config.Mode = "fallback" => selector = "FallbackSelector"
       /\ config.Mode \notin {"load_balance", "fallback"} =>
             (selector = "FallbackSelector" <=> config.Fallback)
       /\ op.name = "NewLoadBalancer" <=> selector = "LoadBalancer"

\* mode "load_balance" with the legacy flag set gave the LoadBalancer
C27_Witness ==
    /\ op.name = "NewLoadBalancer"
    /\ config.Mode = "load_balance"
    /\ config.Fallback
    /\ selector = "LoadBalancer"
    /\ Len(config.Servers) = 2

\* the operations of a selector
SelectorOperations ==
    { "SelectServer", "MarkServerDown", "MarkServerHealthy", "RecoverServer",
      "GetAvailableServers", "GetServerStatus" }

Returned(p) == p \in DOMAIN goroutines /\ ~Running(goroutines[p])

\* no goroutine holds serverMutex together with a hold on statusMutex
NeverBothLocks ==
    \A p \in DOMAIN goroutines :
        Holds(goroutines[p], "serverMutex") =>
            /\ ~Holds(goroutines[p], "RLock")
            /\ ~Holds(goroutines[p], "w")
            /\ ~goroutines[p].blocked

\* while a call is under way, some goroutine can make its next lock operation
NoDeadlock ==
    (\E p \in DOMAIN goroutines : Running(goroutines[p])) =>
        \E p \in DOMAIN goroutines : CanStep(goroutines[p])

\* C29: concurrent SelectServer, MarkServerDown, MarkServerHealthy,
\* RecoverServer and GetServerStatus calls on one selector all return: no
\* call holds serverMutex and statusMutex at the same time, in no state are
\* all unfinished calls waiting for a lock, and every call that was started
\* returns.
C29_CallsComplete ==
    /\ [](NeverBothLocks /\ NoDeadlock)
    /\ []<>(\A p \in DOMAIN goroutines : Returned(p))

\* SelectServer waits in RLock for a writer that has announced itself and
\* has not yet released the lock
C29_Witness ==
    \E p, q \in DOMAIN goroutines :
        /\ goroutines[p].name = "SelectServer"
        /\ goroutines[p].blocked
        /\ goroutines[q].name \in StatusWriters
        /\ Holds(goroutines[q], "w")

(* Usage telemetry *)

UsageParsed == op.name = "parseSSEUsageInfo"

\* the line is an event the scan decodes: a data line without the ping
\* marker whose payload is a JSON object with a string type
Scanned(line) ==
    /\ line.prefix
    /\ ~line.ping
    /\ line.payload # << >>
    /\ line.payload[1].type # << >>

IsMessageStart(line) ==
    Scanned(line) /\ line.payload[1].type[1] = "message_start"

\* the usage object the event carries, if any
UsageIn(line) ==
    IF ~Scanned(line) THEN << >>
    ELSE IF line.payload[1].type[1] = "message_start"
    THEN IF line.payload[1].message = << >> THEN << >>
         ELSE line.payload[1].message[1].usage
    ELSE IF line.payload[1].type[1] = "message_delta"
    THEN line.payload[1].usage
    ELSE << >>

\* the model the message of a message_start carries, if any
ModelIn(line) ==
    IF IsMessageStart(line) /\ line.payload[1].message # << >>
    THEN line.payload[1].message[1].model
    ELSE << >>

\* the position of the last line that passes the test, 0 if none does
LastWhere(lines, Test(_)) ==
    LET S == { i \in 1..Len(lines) : Test(lines[i]) }
    IN  IF S = {} THEN 0 ELSE CHOOSE i \in S : \A k \in S : k <= i

\* the counters equal those of the usage object, 0 for each it lacks
CountersOf(usage, usageData) ==
    /\ usage.InputTokens =
           IF usageData.input_tokens = << >> THEN 0
           ELSE usageData.input_tokens[1]
    /\ usage.OutputTokens =
           IF usageData.output_tokens = << >> THEN 0
           ELSE usageData.output_tokens[1]
    /\ usage.CacheCreationInputTokens =
           IF usageData.cache_creation_input_tokens = << >> THEN 0
           ELSE usageData.cache_creation_input_tokens[1]
    /\ usage.CacheReadInputTokens =
           IF usageData.cache_read_input_tokens = << >> THEN 0
           ELSE usageData.cache_read_input_tokens[1]

UsageOfLastCarrier ==
    LET i == LastWhere(op.lines, LAMBDA l : UsageIn(l) # << >>)
    IN  IF i = 0
        THEN op.parsed.usage = ZeroUsage /\ ~op.parsed.success
        ELSE /\ CountersOf(op.parsed.usage, UsageIn(op.lines[i])[1])
             /\ op.parsed.success

\* C30: for an event-stream body the parsed usage is the usage object of
\* the last message_start or message_delta event that carries one, each
\* counter the object lacks being 0, and the parsed model is the model of the
\* last message_start event that carries a model, empty if none does.
C30_LastUsageLastModel ==
    UsageParsed =>
        /\ UsageOfLastCarrier
        /\ LET j == LastWhere(op.lines, LAMBDA l : ModelIn(l) # << >>)
           IN  op.parsed.model =
                   IF j = 0 THEN "" ELSE ModelIn(op.lines[j])[1]

\* C30 as stated: the parsed model is the model of the last message_start
\* event, empty when that event carries none.
C30_ModelOfLastStart ==
    UsageParsed =>
        /\ UsageOfLastCarrier
        /\ LET j == LastWhere(op.lines, IsMessageStart)
           IN  op.parsed.model =
                   IF j = 0 \/ ModelIn(op.lines[j]) = << >> THEN ""
                   ELSE ModelIn(op.lines[j])[1]

\* message_start with usage {input_tokens: 10, output_tokens: 5}, then
\* message_delta with usage {output_tokens: 30}: input_tokens 0 and
\* output_tokens 30 are parsed
C30_Witness ==
    /\ UsageParsed
    /\ Len(op.lines) = 2
    /\ IsMessageStart(op.lines[1])
    /\ UsageIn(op.lines[1]) # << >>
    /\ UsageIn(op.lines[1])[1].input_tokens = << 10 >>
    /\ UsageIn(op.lines[1])[1].output_tokens = << 5 >>
    /\ ~IsMessageStart(op.lines[2])
    /\ UsageIn(op.lines[2]) # << >>
    /\ UsageIn(op.lines[2])[1].input_tokens = << >>
    /\ UsageIn(op.lines[2])[1].output_tokens = << 30 >>
    /\ op.parsed.usage.InputTokens = 0
    /\ op.parsed.usage.OutputTokens = 30
    /\ op.parsed.model # ""

(* The balance checker *)

BalanceChecked(o) == o.name = "checkServerBalance"

\* the command succeeded and the balance it reported is a number at or below
\* the threshold of the server
LowBalance(o) ==
    /\ ~o.result.err
    /\ ~o.result.balance.nan
    /\ o.result.balance.v <= o.threshold

\* C31: a balance check calls MarkServerDown(url), once, exactly when the
\* command succeeded with a balance at or below the threshold, and then the
\* url is marked down and no other url is touched; any other check leaves
\* the health state of every url as it was; no check makes another call on
\* the selector; and a url that is not selectable becomes selectable only in
\* a tick of the sweeper or a MarkServerHealthy call.
C31_BalanceMarksDownOnly ==
    [][/\ BalanceChecked(op') =>
            /\ op'.calls \in {<< >>, << BalancerCall("MarkServerDown", op'.url) >>}
            /\ op'.calls # << >> <=> LowBalance(op')
            /\ \A u \in URLs \ {op'.url} : Untouched(u)
            /\ IF LowBalance(op')
               THEN /\ ~serverStatus'[op'.url]
                    /\ failureCount'[op'.url] = failureCount[op'.url] + 1
                    /\ serverDownUntil'[op'.url] > now
               ELSE Untouched(op'.url)
      /\ \A u \in URLs :
            ~Selectable(u) /\ Selectable(u)' =>
                op'.name \in {"PassiveHealthCheck", "MarkServerHealthy"}]_vars

\* a check found the balance at the threshold and the server is marked down
C31_Witness ==
    /\ BalanceChecked(op)
    /\ ~op.result.err
    /\ op.result.balance = Float(FALSE, op.threshold)
    /\ op.threshold > 0
    /\ ~serverStatus[op.url]
    /\ ~Selectable(op.url)

(* Concurrent selections *)

\* C32: while a LoadBalancer.SelectServer call computes its pick, holding
\* serverMutex, the list it picks from is the list of the servers that are
\* selectable now: nothing has taken effect between its snapshot and its
\* pick.
C32_PickOnCurrentSnapshot ==
    \A p \in DOMAIN goroutines :
        Holds(goroutines[p], "serverMutex") =>
            goroutines[p].snap = LB_GetAvailableServersAt(now)

\* C33: a round_robin selection returns the server at position
\* counter % len(selectable) for the value the counter had before the
\* selection incremented it; the first selection on a freshly built
\* selector with every server selectable returns the first configured
\* server.
C33_PickBeforeIncrement ==
    (selector = "LoadBalancer" /\ config.Algorithm = "round_robin"
        /\ op.name = "SelectServer" /\ op.snap # << >>) =>
        /\ op.ret = op.snap[((currentServerIndex - 1) % Len(op.snap)) + 1]
        /\ (currentServerIndex = 1 /\ op.snap = URLSeq(config.Servers)) =>
               op.ret = config.Servers[1].URL

(* The streamed relay *)

\* C34: in a streamed relay no read of the upstream body is made after a
\* write to the client has failed: the loop has left at the turn of the
\* first failed write.
C34_NoReadAfterFailedWrite ==
    op.name = "stream" =>
        \A i \in 1..Len(op.writes) :
            ~op.writes[i].ok => op.reads = op.writes[i].at

\* the run of the handler on the same selection and an upstream that differs
\* from the one of the last run in nothing but what its body is to
\* parseUsageInfo
OtherRun(o, usage) ==
    HandlerFunc([ret |-> o.ret, err |-> o.err],
                [o.upstream EXCEPT !.usage = usage])

\* C35: two runs of the handler that differ only in whether the body parses
\* as usage (valid, malformed, unsupported content type) send the client the
\* same status and body, send the request to the same servers and make the
\* same calls on the Balancer
C35_UsageNeverInfluences ==
    (op.name = "Handler" /\ op.err = "") =>
        \A usage \in UsageOutcomes :
            [op.upstream EXCEPT !.usage = usage] \in Upstreams =>
                LET other == OtherRun(op, usage)
                IN  /\ other.client = op.client
                    /\ other.calls = op.calls
                    /\ other.contacted = op.contacted

\* a 200 whose body does not parse was relayed whole and the server marked
\* healthy, and the same run on a body that parses logs another line
C35_Witness ==
    /\ op.name = "Handler" /\ op.err = ""
    /\ op.upstream.status = 200
    /\ op.upstream.usage = "malformed"
    /\ ~op.upstream.streaming
    /\ op.client = ClientResponse(200, "", op.upstream.body)
    /\ op.calls = << BalancerCall("MarkServerHealthy", op.ret) >>
    /\ op.logged = << "Success" >>
    /\ OtherRun(op, "valid").logged = << "Success with usage" >>

\* the last call on the selector is a MarkServerDown(url) that completed
\* after the sweeper took the status snapshot of its tick, and the tick has
\* finished
MarkedDuringTick ==
    /\ goroutines # << >>
    /\ goroutines[1].name = "PassiveHealthCheck"
    /\ ~Sweeping
    /\ op.name = "MarkServerDown"

\* C36: a MarkServerDown(url) that completes after the sweeper has taken its
\* status snapshot for a tick is not undone by that tick: when the tick
\* finishes, url is unavailable with the cooldown end MarkServerDown set
C36_MarkSurvivesTick ==
    MarkedDuringTick =>
        /\ ~serverStatus[op.url]
        /\ serverDownUntil[op.url] = backoffUntil[op.url]

\* C37: in every reachable state Failover SelectServer and Failover
\* GetAvailableServers agree, at every clock reading a call can hold:
\* SelectServer takes the emergency path exactly when GetAvailableServers is
\* empty and otherwise returns the first element of GetAvailableServers, and
\* so did the last SelectServer call
C37_SelectAgreesWithAvailable ==
    FS_Running =>
        /\ \A t \in StaleNows :
              LET available == FS_GetAvailableServersAt(t)
                  r == FS_SelectServerAt(t, now)
              IN  /\ FS_firstAvailable(t, 1) = 0 <=> available = << >>
                  /\ available # << >> => r.ret = available[1].URL
        /\ op.name = "SelectServer" =>
              LET available == FS_GetAvailableServersAt(op.now)
              IN  available # << >> => op.ret = available[1].URL

\* SelectServer passed over the first server of the order, which is cooling
\* down, and returned the head of a GetAvailableServers that is not empty
C37_Witness ==
    /\ FS_Running
    /\ op.name = "SelectServer"
    /\ Len(orderedServers) >= 2
    /\ ~serverStatus[orderedServers[1].URL]
    /\ op.now <= serverDownUntil[orderedServers[1].URL]
    /\ FS_GetAvailableServersAt(op.now) # << >>
    /\ op.ret = FS_GetAvailableServersAt(op.now)[1].URL
    /\ op.ret = orderedServers[2].URL

\* the sum of the smooth-weight accumulators over the configured servers
RECURSIVE SumOfWeights(_, _)
SumOfWeights(servers, weights) ==
    IF servers = << >> THEN 0
    ELSE weights[Head(servers).URL] + SumOfWeights(Tail(servers), weights)

Occurrences(u) ==
    Cardinality({ i \in 1..Len(orderedServers) : orderedServers[i].URL = u })

\* orderedServers holds every configured server exactly once, with the
\* weight it was configured with
IsPermutation ==
    /\ Len(orderedServers) = Len(config.Servers)
    /\ \A i \in 1..Len(config.Servers) :
          /\ Occurrences(config.Servers[i].URL) = 1
          /\ \E j \in 1..Len(orderedServers) :
                /\ orderedServers[j].URL = config.Servers[i].URL
                /\ orderedServers[j].Weight = config.Servers[i].Weight

\* the urls of a list in its order, each with its effective priority
OrderAndPriorities(list) ==
    [i \in 1..Len(list) |-> << list[i].URL, list[i].Priority >>]

\* C39: the list NewFallbackSelector builds is a permutation of the
\* configured server list (none dropped or duplicated by the partition into
\* explicit and auto groups and the copy back), and no operation after
\* construction changes its order or its effective priorities
C39_OrderIsFixedPermutation ==
    /\ [](selector = "FallbackSelector" => IsPermutation)
    /\ [][selector = "FallbackSelector" =>
              OrderAndPriorities(orderedServers')
                  = OrderAndPriorities(orderedServers)]_vars

\* a list with explicit and auto servers was reordered by the constructor,
\* and a server of it has since been marked down
C39_Witness ==
    /\ selector = "FallbackSelector"
    /\ Len(orderedServers) = 3
    /\ ExplicitURLs # {} /\ AutoURLs # {}
    /\ URLSeq(orderedServers) # URLSeq(config.Servers)
    /\ op.name = "MarkServerDown"
    /\ ~serverStatus[orderedServers[1].URL]

\* the calls of the given method on the url that have returned
ReturnedCalls(name, u) ==
    { p \in DOMAIN goroutines :
        /\ goroutines[p].name = name
        /\ goroutines[p].url = u
        /\ Returned(p) }

\* goroutine p returns from the given method on the url in this step
Returns(p, name, u) ==
    /\ p \in DOMAIN goroutines
    /\ goroutines[p].name = name
    /\ goroutines[p].url = u
    /\ Running(goroutines[p])
    /\ ~Running(goroutines'[p])

\* failureCount is never negative and is at least 1 for a url whose
\* available flag is false
FailureCountBounds ==
    \A u \in URLs :
        /\ failureCount[u] >= 0
        /\ ~serverStatus[u] => failureCount[u] >= 1

\* k MarkServerDown calls on a url with no MarkServerHealthy on it have
\* raised its count from 0 to k
CountsTheCalls ==
    \A u \in URLs :
        ReturnedCalls("MarkServerHealthy", u) = {} =>
            failureCount[u] = Cardinality(ReturnedCalls("MarkServerDown", u))

\* C40: in every reachable state of either selector failureCount is
\* non-negative for every url and at least 1 for a url whose available flag
\* is false; failureCount[url] changes only by +1 in MarkServerDown(url) and
\* by the reset to 0 in MarkServerHealthy(url); k MarkServerDown calls on one
\* url without a MarkServerHealthy, however they interleave with each other
\* and with other calls, raise it by exactly k
C40_FailureCountSteps ==
    /\ [](FailureCountBounds /\ CountsTheCalls)
    /\ [][\A u \in URLs :
             failureCount'[u] # failureCount[u] =>
                \E p \in DOMAIN goroutines :
                   \/ /\ Returns(p, "MarkServerDown", u)
                      /\ failureCount'[u] = failureCount[u] + 1
                   \/ /\ Returns(p, "MarkServerHealthy", u)
                      /\ failureCount'[u] = 0]_vars

\* two MarkServerDown calls on one url, the second of which waited for the
\* lock while the first held it, have both returned
C40_Witness ==
    \E p, q \in DOMAIN goroutines, u \in URLs :
        /\ p # q
        /\ ReturnedCalls("MarkServerDown", u) = {p, q}
        /\ failureCount[u] = 2
        /\ ~serverStatus[u]

=============================================================================
